---- MODULE Spec2Model ----
(***************************************************************************)
(* A model of shubhk2/emerging_labs: the XBRL fact groupers                *)
(* (backend/indep/xml_to_excel*.py, brsr_xml_to_excel.py), the XML and     *)
(* scraper loaders, and the FastAPI routers.                               *)
(*                                                                         *)
(* Python strings are modelled as tuples of one-character strings, so that *)
(* strip(), split(), startswith(), `in' and the trailing-digit regex are   *)
(* computed character by character as the code computes them.              *)
(***************************************************************************)
EXTENDS Integers, Sequences, FiniteSets, TLC

(***************************************************************************)
(* Bounds of the model.                                                    *)
(***************************************************************************)
\* the longest document: the number of elements ET's iter() yields
MaxElems == 2
\* the longest company_numbers list of a ratio request
MaxCompanies == 2
\* files in a folder
MaxFiles == 2
\* report-date columns of a scraped section
MaxCols == 1
\* data points of a scraped balance sheet
MaxItems == 2

(***************************************************************************)
(* String literals of the source, and the sample tags, contexts and texts  *)
(* the documents are built from.                                           *)
(***************************************************************************)
\* "{ns}NameOfCounterParty"
tag_NameOfCounterParty ==
    <<"{","n","s","}","N","a","m","e","O","f","C","o","u","n","t","e",
      "r","P","a","r","t","y">>
\* "Amount"
tag_Amount ==
    <<"A","m","o","u","n","t">>
\* "NameOfCounterParty"
s_NameOfCounterParty ==
    <<"N","a","m","e","O","f","C","o","u","n","t","e","r","P","a","r",
      "t","y">>
\* "Amount"
s_Amount ==
    <<"A","m","o","u","n","t">>
\* "Acme Ltd"
s_AcmeLtd ==
    <<"A","c","m","e"," ","L","t","d">>
\* "500"
s_500 ==
    <<"5","0","0">>
\* "AmountOfRelatedPartyTransaction_PreviousYear"
s_PreviousYear ==
    <<"A","m","o","u","n","t","O","f","R","e","l","a","t","e","d","P",
      "a","r","t","y","T","r","a","n","s","a","c","t","i","o","n","_",
      "P","r","e","v","i","o","u","s","Y","e","a","r">>
\* "AmountOfRelatedPartyTransaction_Outstanding"
s_Outstanding ==
    <<"A","m","o","u","n","t","O","f","R","e","l","a","t","e","d","P",
      "a","r","t","y","T","r","a","n","s","a","c","t","i","o","n","_",
      "O","u","t","s","t","a","n","d","i","n","g">>
\* "D_"
s_D_ ==
    <<"D","_">>
\* "RelatedPartyTransaction_PY"
s_RelatedPartyTransaction_PY ==
    <<"R","e","l","a","t","e","d","P","a","r","t","y","T","r","a","n",
      "s","a","c","t","i","o","n","_","P","Y">>
\* "D_RelatedPartyTransaction12"
ctx_D_RPT12 ==
    <<"D","_","R","e","l","a","t","e","d","P","a","r","t","y","T","r",
      "a","n","s","a","c","t","i","o","n","1","2">>
\* "D_RelatedPartyTransaction7"
ctx_D_RPT7 ==
    <<"D","_","R","e","l","a","t","e","d","P","a","r","t","y","T","r",
      "a","n","s","a","c","t","i","o","n","7">>
\* "RelatedPartyTransaction_PY7"
ctx_RPT_PY7 ==
    <<"R","e","l","a","t","e","d","P","a","r","t","y","T","r","a","n",
      "s","a","c","t","i","o","n","_","P","Y","7">>
\* "I_RelatedPartyTransaction07"
ctx_I_RPT07 ==
    <<"I","_","R","e","l","a","t","e","d","P","a","r","t","y","T","r",
      "a","n","s","a","c","t","i","o","n","0","7">>
\* "MainD"
s_MainD ==
    <<"M","a","i","n","D">>
\* "MainI"
s_MainI ==
    <<"M","a","i","n","I">>
\* "CompBOD"
s_CompBOD ==
    <<"C","o","m","p","B","O","D">>
\* "CompComit"
s_CompComit ==
    <<"C","o","m","p","C","o","m","i","t">>
\* "MeetingBOD"
s_MeetingBOD ==
    <<"M","e","e","t","i","n","g","B","O","D">>
\* "MeetingComit"
s_MeetingComit ==
    <<"M","e","e","t","i","n","g","C","o","m","i","t">>
\* "D_CompBOD1"
ctx_CompBOD1 ==
    <<"D","_","C","o","m","p","B","O","D","1">>
\* "D_CompComit1"
ctx_CompComit1 ==
    <<"D","_","C","o","m","p","C","o","m","i","t","1">>
\* "D_MeetingBOD1"
ctx_MeetingBOD1 ==
    <<"D","_","M","e","e","t","i","n","g","B","O","D","1">>
\* "D_MeetingComit2"
ctx_MeetingComit2 ==
    <<"D","_","M","e","e","t","i","n","g","C","o","m","i","t","2">>
\* "D_CompBODAxis"
ctx_CompBODAxis ==
    <<"D","_","C","o","m","p","B","O","D","A","x","i","s">>
\* "D_CompBOD_MeetingBOD3": a context that contains two category markers
ctx_CompBODMeetingBOD3 ==
    <<"D","_","C","o","m","p","B","O","D","_","M","e","e","t","i","n",
      "g","B","O","D","3">>
\* "Employees_TableA"
s_Employees_TableA ==
    <<"E","m","p","l","o","y","e","e","s","_","T","a","b","l","e","A">>
\* "Male"
s_Male ==
    <<"M","a","l","e">>
\* "Female"
s_Female ==
    <<"F","e","m","a","l","e">>
\* "OtherGender"
s_OtherGender ==
    <<"O","t","h","e","r","G","e","n","d","e","r">>
\* "PermanentEmployees"
s_PermanentEmployees ==
    <<"P","e","r","m","a","n","e","n","t","E","m","p","l","o","y","e",
      "e","s">>
\* "OtherThanPermanentEmployees"
s_OtherThanPermanentEmployees ==
    <<"O","t","h","e","r","T","h","a","n","P","e","r","m","a","n","e",
      "n","t","E","m","p","l","o","y","e","e","s">>
\* "Main"
s_Main ==
    <<"M","a","i","n">>
\* "Principle"
s_Principle ==
    <<"P","r","i","n","c","i","p","l","e">>
\* "HoldingSubsidiaryAssociateCompanies"
s_HoldingSubsidiaryAssociateCompanies ==
    <<"H","o","l","d","i","n","g","S","u","b","s","i","d","i","a","r",
      "y","A","s","s","o","c","i","a","t","e","C","o","m","p","a","n",
      "i","e","s">>
\* "CSRProjectsAxis"
s_CSRProjectsAxis ==
    <<"C","S","R","P","r","o","j","e","c","t","s","A","x","i","s">>
\* "D_Principle1"
ctx_Principle1 ==
    <<"D","_","P","r","i","n","c","i","p","l","e","1">>
\* "D_HoldingSubsidiaryAssociateCompanies1"
ctx_Holding1 ==
    <<"D","_","H","o","l","d","i","n","g","S","u","b","s","i","d","i",
      "a","r","y","A","s","s","o","c","i","a","t","e","C","o","m","p",
      "a","n","i","e","s","1">>
\* "D_CSRProjectsAxis1"
ctx_CSR1 ==
    <<"D","_","C","S","R","P","r","o","j","e","c","t","s","A","x","i",
      "s","1">>
\* "D_Employees_TableA_Male_PermanentEmployees"
ctx_EmpMalePerm ==
    <<"D","_","E","m","p","l","o","y","e","e","s","_","T","a","b","l",
      "e","A","_","M","a","l","e","_","P","e","r","m","a","n","e","n",
      "t","E","m","p","l","o","y","e","e","s">>
\* "D_Employees_TableA_Female_OtherThanPermanentEmployees"
ctx_EmpFemaleOther ==
    <<"D","_","E","m","p","l","o","y","e","e","s","_","T","a","b","l",
      "e","A","_","F","e","m","a","l","e","_","O","t","h","e","r","T",
      "h","a","n","P","e","r","m","a","n","e","n","t","E","m","p","l",
      "o","y","e","e","s">>
\* "D_Employees_TableA"
ctx_EmpTotal ==
    <<"D","_","E","m","p","l","o","y","e","e","s","_","T","a","b","l",
      "e","A">>
\* " 500 ": a text with surrounding whitespace
s_500_padded ==
    <<" ","5","0","0"," ">>
\* "  ": a whitespace-only text
s_blank ==
    <<" "," ">>
\* Python's None: a value that is no string (no character is four letters long)
None == <<"None">>

(***************************************************************************)
(* Python's string operations, on tuples of characters.                    *)
(***************************************************************************)
\* the characters str.strip() removes
Whitespace == {" ", "\t", "\n", "\r"}
\* the characters \d matches
DigitChars == {"0", "1", "2", "3", "4", "5", "6", "7", "8", "9"}

DigitVal(c) ==
    CASE c = "0" -> 0 [] c = "1" -> 1 [] c = "2" -> 2 [] c = "3" -> 3
      [] c = "4" -> 4 [] c = "5" -> 5 [] c = "6" -> 6 [] c = "7" -> 7
      [] c = "8" -> 8 [] c = "9" -> 9

Front(s) == SubSeq(s, 1, Len(s) - 1)

RECURSIVE lstrip(_)
lstrip(s) ==
    IF s # <<>> /\ Head(s) \in Whitespace THEN lstrip(Tail(s)) ELSE s

RECURSIVE rstrip(_)
rstrip(s) ==
    IF s # <<>> /\ s[Len(s)] \in Whitespace THEN rstrip(Front(s)) ELSE s

\* str.strip()
strip(s) == rstrip(lstrip(s))

\* str.startswith(p)
startswith(s, p) == Len(s) >= Len(p) /\ SubSeq(s, 1, Len(p)) = p

\* p in s
contains(s, p) ==
    \E i \in 1..(Len(s) - Len(p) + 1) : SubSeq(s, i, i + Len(p) - 1) = p

\* elem.tag.split('}')[-1]: the part after the last '}', the whole tag if none
local_name(tag) ==
    LET braces == {i \in 1..Len(tag) : tag[i] = "}"}
    IN  IF braces = {} THEN tag
        ELSE LET last == CHOOSE i \in braces : \A j \in braces : j <= i
             IN  SubSeq(tag, last + 1, Len(tag))

\* the longest run of digits the string ends in
RECURSIVE digit_suffix(_)
digit_suffix(s) ==
    IF s # <<>> /\ s[Len(s)] \in DigitChars
    THEN digit_suffix(Front(s)) \o <<s[Len(s)]>>
    ELSE <<>>

\* mutant of id_pattern_search: the pattern (\d)$, which captures one digit
id_pattern_search_one_digit(context) ==
    IF context # <<>> /\ context[Len(context)] \in DigitChars
    THEN <<context[Len(context)]>>
    ELSE <<>>

\* re.compile(r'(\d+)$').search(context): group(1), or <<>> for no match.
\* Python's $ matches at the end of the string and also just before a
\* newline that ends the string.
id_pattern_search(context) ==
    IF digit_suffix(context) # <<>> THEN digit_suffix(context)
    ELSE IF context # <<>> /\ context[Len(context)] = "\n"
         THEN digit_suffix(Front(context))
         ELSE <<>>

\* int(match.group(1))
RECURSIVE int(_)
int(digits) ==
    IF digits = <<>> THEN 0
    ELSE 10 * int(Front(digits)) + DigitVal(digits[Len(digits)])

(***************************************************************************)
(* Python dicts as functions; defaultdict(dict) reads a missing key as {}. *)
(***************************************************************************)
EmptyDict == <<>>

\* mutant of dict_set: d.setdefault(key, value), which keeps the first value
dict_set_keep_first(d, key, value) ==
    [k \in (DOMAIN d) \cup {key} |-> IF k \in DOMAIN d THEN d[k] ELSE value]

dict_set(d, key, value) ==
    [k \in (DOMAIN d) \cup {key} |-> IF k = key THEN value ELSE d[k]]

defaultdict_get(d, key) == IF key \in DOMAIN d THEN d[key] ELSE EmptyDict

\* d[id][key] = value on a defaultdict(dict)
group_set(d, id, key, value) ==
    dict_set(d, id, dict_set(defaultdict_get(d, id), key, value))

(***************************************************************************)
(* Step 1 of every grouper: the flat fact list.                            *)
(* A document is the sequence of its elements in document order, the order *)
(* in which root.iter() yields them (depth first, parents before children).*)
(***************************************************************************)
\* elem.get('contextRef', '')
get_contextRef(elem) ==
    IF elem.contextRef = None THEN <<>> ELSE elem.contextRef

\* elem.text and elem.text.strip()
has_text(elem) ==
    elem.text # None /\ elem.text # <<>> /\ strip(elem.text) # <<>>

\* mutant of collect_facts: the `if context_ref' test left out
RECURSIVE collect_facts_any_context(_)
collect_facts_any_context(elems) ==
    IF elems = <<>> THEN <<>>
    ELSE LET elem == Head(elems)
             rest == collect_facts_any_context(Tail(elems))
         IN  IF has_text(elem)
             THEN <<[element_name |-> local_name(elem.tag),
                     context      |-> get_contextRef(elem),
                     fact_value   |-> strip(elem.text)]>> \o rest
             ELSE rest

RECURSIVE collect_facts(_)
collect_facts(elems) ==
    IF elems = <<>> THEN <<>>
    ELSE LET elem == Head(elems)
             rest == collect_facts(Tail(elems))
         IN  IF has_text(elem) /\ get_contextRef(elem) # <<>>
             THEN <<[element_name |-> local_name(elem.tag),
                     context      |-> get_contextRef(elem),
                     fact_value   |-> strip(elem.text)]>> \o rest
             ELSE rest

(***************************************************************************)
(* Step 3 of the groupers: one fact into the output dictionaries.          *)
(* The output is [general_info, tables, employee_details]; tables maps a   *)
(* dictionary's name to group id -> field name -> value.                   *)
(***************************************************************************)
table_set(out, table, id, key, value) ==
    [out EXCEPT !.tables[table] = group_set(@, id, key, value)]

\* mutant of rp_group_fact: the "D_" branch tests for "RelatedPartyTransaction_PY"
\* as well, so that current-period facts fall through to the outstanding key
rp_group_fact_no_current(out, fact) ==
    LET context == fact.context
        match   == id_pattern_search(context)
    IN  IF match # <<>>
        THEN LET transaction_id == int(match)
                 value          == fact.fact_value
             IN  IF startswith(context, s_RelatedPartyTransaction_PY)
                 THEN table_set(out, "grouped_facts", transaction_id,
                                s_PreviousYear, value)
                 ELSE table_set(out, "grouped_facts", transaction_id,
                                s_Outstanding, value)
        ELSE out

\* mutant of rp_group_fact: the previous-year and outstanding keys swapped
rp_group_fact_keys_swapped(out, fact) ==
    LET context == fact.context
        match   == id_pattern_search(context)
    IN  IF match # <<>>
        THEN LET transaction_id == int(match)
                 element_name   == fact.element_name
                 value          == fact.fact_value
             IN  IF startswith(context, s_D_)
                 THEN table_set(out, "grouped_facts", transaction_id,
                                element_name, value)
                 ELSE IF startswith(context, s_RelatedPartyTransaction_PY)
                 THEN table_set(out, "grouped_facts", transaction_id,
                                s_Outstanding, value)
                 ELSE table_set(out, "grouped_facts", transaction_id,
                                s_PreviousYear, value)
        ELSE out

\* a Step 2 of xml_to_excel_new.py without the previous-year branch
RECURSIVE new_grouped_facts_no_py(_)
new_grouped_facts_no_py(facts_) ==
    IF facts_ = <<>> THEN EmptyDict
    ELSE LET fact    == facts_[Len(facts_)]
             grouped == new_grouped_facts_no_py(Front(facts_))
             match   == id_pattern_search(fact.context)
         IN  IF match = <<>> THEN grouped
             ELSE group_set(grouped, int(match),
                            IF startswith(fact.context, s_D_)
                            THEN fact.element_name ELSE s_Outstanding,
                            fact.fact_value)

\* xml_to_excel_new.py, Step 2: grouped_facts after `for fact in facts'
RECURSIVE new_grouped_facts(_)
new_grouped_facts(facts_) ==
    IF facts_ = <<>> THEN EmptyDict
    ELSE LET fact           == facts_[Len(facts_)]
             grouped_facts  == new_grouped_facts(Front(facts_))
             context        == fact.context
             match          == id_pattern_search(context)
             transaction_id == int(match)
             element_name   == fact.element_name
             value          == fact.fact_value
         IN  IF match = <<>> THEN grouped_facts
             ELSE IF startswith(context, s_D_)
             THEN group_set(grouped_facts, transaction_id, element_name, value)
             ELSE IF startswith(context, s_RelatedPartyTransaction_PY)
             THEN group_set(grouped_facts, transaction_id, s_PreviousYear, value)
             ELSE group_set(grouped_facts, transaction_id, s_Outstanding, value)

\* a grouper that files a fact with neither prefix under its own element name
rp_group_fact_own_name(out, fact) ==
    LET context == fact.context
        match   == id_pattern_search(context)
    IN  IF match # <<>>
        THEN table_set(out, "grouped_facts", int(match),
                       IF startswith(context, s_RelatedPartyTransaction_PY)
                       THEN s_PreviousYear ELSE fact.element_name,
                       fact.fact_value)
        ELSE out

\* xml_to_excel.py and xml_to_excel_new.py: related-party transactions
rp_group_fact(out, fact) ==
    LET context == fact.context
        match   == id_pattern_search(context)
    IN  IF match # <<>>
        THEN LET transaction_id == int(match)
                 element_name   == fact.element_name
                 value          == fact.fact_value
             IN  IF startswith(context, s_D_)
                 THEN table_set(out, "grouped_facts", transaction_id,
                                element_name, value)
                 ELSE IF startswith(context, s_RelatedPartyTransaction_PY)
                 THEN table_set(out, "grouped_facts", transaction_id,
                                s_PreviousYear, value)
                 ELSE table_set(out, "grouped_facts", transaction_id,
                                s_Outstanding, value)
        ELSE out

\* mutant of cg_group_fact: a fact without a numeric suffix is filed under
\* item 0 instead of being skipped
cg_group_fact_unmatched_zero(out, fact) ==
    LET context      == fact.context
        element_name == fact.element_name
        value        == fact.fact_value
        match        == id_pattern_search(context)
    IN  IF context \in {s_MainD, s_MainI}
        THEN [out EXCEPT !.general_info = dict_set(@, element_name, value)]
        ELSE LET item_id == IF match = <<>> THEN 0 ELSE int(match)
             IN  IF contains(context, s_CompBOD)
                 THEN table_set(out, "board_composition", item_id,
                                element_name, value)
                 ELSE IF contains(context, s_CompComit)
                 THEN table_set(out, "committee_composition", item_id,
                                element_name, value)
                 ELSE IF contains(context, s_MeetingBOD)
                 THEN table_set(out, "board_meetings", item_id,
                                element_name, value)
                 ELSE IF contains(context, s_MeetingComit)
                 THEN table_set(out, "committee_meetings", item_id,
                                element_name, value)
                 ELSE out

\* a grouper that keys a row by the suffix alone: one table for all categories
cg_group_fact_by_suffix(out, fact) ==
    LET context == fact.context
        match   == id_pattern_search(context)
    IN  IF context \in {s_MainD, s_MainI}
        THEN [out EXCEPT !.general_info =
                             dict_set(@, fact.element_name, fact.fact_value)]
        ELSE IF match = <<>> THEN out
        ELSE IF \E c \in {s_CompBOD, s_CompComit, s_MeetingBOD, s_MeetingComit} :
                   contains(context, c)
        THEN table_set(out, "board_composition", int(match),
                       fact.element_name, fact.fact_value)
        ELSE out

\* xml_to_excel_cg.py: corporate governance
cg_group_fact(out, fact) ==
    LET context      == fact.context
        element_name == fact.element_name
        value        == fact.fact_value
        match        == id_pattern_search(context)
    IN  IF context \in {s_MainD, s_MainI}
        THEN [out EXCEPT !.general_info = dict_set(@, element_name, value)]
        ELSE IF match = <<>> THEN out
        ELSE LET item_id == int(match)
             IN  IF contains(context, s_CompBOD)
                 THEN table_set(out, "board_composition", item_id,
                                element_name, value)
                 ELSE IF contains(context, s_CompComit)
                 THEN table_set(out, "committee_composition", item_id,
                                element_name, value)
                 ELSE IF contains(context, s_MeetingBOD)
                 THEN table_set(out, "board_meetings", item_id,
                                element_name, value)
                 ELSE IF contains(context, s_MeetingComit)
                 THEN table_set(out, "committee_meetings", item_id,
                                element_name, value)
                 ELSE out

\* brsr_xml_to_excel.py: the gender of an Employees_TableA context
brsr_gender(context) ==
    IF contains(context, s_Male) THEN "Male"
    ELSE IF contains(context, s_Female) THEN "Female"
    ELSE IF contains(context, s_OtherGender) THEN "Other"
    ELSE "Total"

\* brsr_xml_to_excel.py: the employee type of an Employees_TableA context
brsr_emp_type(context) ==
    IF contains(context, s_PermanentEmployees) THEN "Permanent"
    ELSE IF contains(context, s_OtherThanPermanentEmployees)
    THEN "Other Than Permanent"
    ELSE "Overall"

\* brsr_xml_to_excel.py: business responsibility report
brsr_group_fact(out, fact) ==
    LET context      == fact.context
        element_name == fact.element_name
        value        == fact.fact_value
        match        == id_pattern_search(context)
    IN  IF contains(context, s_Employees_TableA)
        THEN LET emp_type == brsr_emp_type(context)
                 gender   == brsr_gender(context)
                 genders  == defaultdict_get(out.employee_details, emp_type)
             IN  [out EXCEPT !.employee_details =
                      dict_set(@, emp_type,
                               group_set(genders, gender, element_name, value))]
        ELSE IF contains(context, s_Main) \/ contains(context, s_Principle)
        THEN [out EXCEPT !.general_info =
                  dict_set(@, element_name \o <<"_">> \o context, value)]
        ELSE IF match # <<>>
        THEN LET item_id == int(match)
             IN  IF contains(context, s_HoldingSubsidiaryAssociateCompanies)
                 THEN table_set(out, "holdings_subsidiaries", item_id,
                                element_name, value)
                 ELSE IF contains(context, s_CSRProjectsAxis)
                 THEN table_set(out, "csr_projects", item_id,
                                element_name, value)
                 ELSE out
        ELSE out

\* the numbered dictionaries each grouper prepares (its Step 2)
TableNames(k) ==
    CASE k = "rp"   -> {"grouped_facts"}
      [] k = "cg"   -> {"board_composition", "committee_composition",
                        "board_meetings", "committee_meetings"}
      [] k = "brsr" -> {"holdings_subsidiaries", "csr_projects"}

EmptyOut(k) ==
    [general_info     |-> EmptyDict,
     tables           |-> [t \in TableNames(k) |-> EmptyDict],
     employee_details |-> EmptyDict]

group_fact(k, out, fact) ==
    CASE k = "rp"   -> rp_group_fact(out, fact)
      [] k = "cg"   -> cg_group_fact(out, fact)
      [] k = "brsr" -> brsr_group_fact(out, fact)

(***************************************************************************)
(* The documents the groupers are run on.                                  *)
(***************************************************************************)
Tags == {tag_NameOfCounterParty, tag_Amount}

Texts == {s_AcmeLtd, s_500_padded}

Contexts(k) ==
    CASE k = "rp"   -> {ctx_D_RPT12, ctx_D_RPT7, ctx_RPT_PY7, ctx_I_RPT07,
                        s_MainD}
      [] k = "cg"   -> {s_MainD, ctx_CompBOD1, ctx_CompComit1, ctx_MeetingBOD1,
                        ctx_MeetingComit2, ctx_CompBODAxis,
                        ctx_CompBODMeetingBOD3}
      [] k = "brsr" -> {s_MainD, ctx_Principle1, ctx_Holding1, ctx_CSR1,
                        ctx_EmpMalePerm, ctx_EmpFemaleOther, ctx_EmpTotal}

Element(tag, contextRef, text) ==
    [tag |-> tag, contextRef |-> contextRef, text |-> text]

\* elements that carry no text, blank text, or no, an empty or a blank contextRef
OddElements(k) ==
    LET c == CHOOSE c \in Contexts(k) : digit_suffix(c) # <<>>
    IN  {Element(tag_Amount, c, None),
         Element(tag_Amount, c, s_blank),
         Element(tag_Amount, None, s_AcmeLtd),
         Element(tag_Amount, <<>>, s_AcmeLtd),
         Element(tag_Amount, <<" ">>, s_AcmeLtd)}

\* a current-period element of the related-party report whose local name is
\* the key the grouper files outstanding balances under
tag_AmountOutstanding == <<"{", "n", "s", "}">> \o s_Outstanding

KeyNamedElements(k) ==
    IF k = "rp" THEN {Element(tag_AmountOutstanding, ctx_D_RPT7, s_AcmeLtd)}
    ELSE {}

Elements(k) ==
    {Element(t, c, x) : t \in Tags, c \in Contexts(k), x \in Texts}
        \cup OddElements(k) \cup KeyNamedElements(k)

SeqsUpTo(S, n) == UNION {[1..m -> S] : m \in 0..n}

Documents(k) == SeqsUpTo(Elements(k), MaxElems)

Kinds == {"rp", "cg", "brsr"}

(***************************************************************************)
(* State.                                                                  *)
(***************************************************************************)
VARIABLES
    kind,       \* which grouper runs: "rp", "cg" or "brsr"
    xml,        \* the input file: [wellformed, elems]
    xpc,        \* where the grouper is
    facts,      \* the flat fact list of Step 1
    fi,         \* the index of the fact the grouping loop is at
    out         \* the dictionaries the grouping loop fills

xbrlVars == <<kind, xml, xpc, facts, fi, out>>

VARIABLES
    req,        \* the HTTP request: [endpoint, ...parameters, fault]
    hpc,        \* "received" or "responded"
    raised,     \* what the handler's try block raised ("none" if it returned)
    resp        \* the response: [status, body]

httpVars == <<req, hpc, raised, resp>>

\* the XML-to-database loaders (xml_to_excel.py main, xml_to_sql_cg.py)
VARIABLES
    loader,     \* "rpt" (xml_to_excel.py) or "cg" (xml_to_sql_cg.py)
    files,      \* the .xml files of the folder, in os.listdir order
    li,         \* index of the file the loop is at
    lpc,        \* "loop", "done", or "crashed" on an uncaught exception
    run,        \* "first", or "again" when the script is run a second time
    sqlTables,  \* table name -> the rows appended to it, in order
    log         \* the diagnostics printed, in order

loadVars == <<loader, files, li, lpc, run, sqlTables, log>>

\* the scrapers that upsert into balance_sheet and profit_and_loss
\* (scrape_main_rows.py, scrap_finchat.py)
VARIABLES
    db,         \* the committed tables
    conn,       \* the connection: transaction status and uncommitted view
    job,        \* the ticker or company being loaded and its scraped data
    upc,        \* position inside the iteration of scrape_main_rows.main
    lastUpsert  \* history: key -> value of the latest committed upsert

upsertVars == <<db, conn, job, upc, lastUpsert>>

\* one outbound HTTP request of a screener scraper (scrape_it.py,
\* scrape_main_rows.py)
VARIABLES
    caller,     \* the call site that sends the request, and its url
    fpc,        \* "ready" to send, "answered", or "done"
    retries,    \* the retries made so far for this request
    answer,     \* the last response: [status, retry_after]
    waited,     \* how the last sleep before a retry was chosen
    outcome     \* what the call site ends with: [raised, printed, ...]

fetchVars == <<caller, fpc, retries, answer, waited, outcome>>

\* one call of extract_financial_data (scrap_finchat.py)
VARIABLES
    page_source, \* the page: what the three find_all calls return, and a fault
    epc,         \* "called" or "returned"
    extracted    \* the list returned, the parser used, the parse_date calls

extractVars == <<page_source, epc, extracted>>

\* one call of process_all_companies or test_single_company (scrap_finchat.py)
VARIABLES
    invoked,    \* the call: the method, what the database and the site hold
    rpc,        \* "called", "returned", or "raised" on an uncaught exception
    events,     \* the scrape and store calls made, in order
    ended       \* how the call ended: [raised, returned]

scraperVars == <<invoked, rpc, events, ended>>

\* the ticker loop of scrape_it.py
VARIABLES
    tickers,         \* the ticker list after random.shuffle
    ti,              \* index of the ticker the loop is at
    mpc,             \* "loop" or "complete"
    processed_count,
    error_count,
    handled          \* history: what happened to each ticker handled so far

mainVars == <<tickers, ti, mpc, processed_count, error_count, handled>>

vars == <<xbrlVars, httpVars, loadVars, upsertVars, fetchVars, extractVars, scraperVars, mainVars>>

exceptXbrl == <<httpVars, loadVars, upsertVars, fetchVars, extractVars, scraperVars, mainVars>>
exceptHttp == <<xbrlVars, loadVars, upsertVars, fetchVars, extractVars, scraperVars, mainVars>>
exceptLoad == <<xbrlVars, httpVars, upsertVars, fetchVars, extractVars, scraperVars, mainVars>>
exceptUpsert == <<xbrlVars, httpVars, loadVars, fetchVars, extractVars, scraperVars, mainVars>>
exceptFetch == <<xbrlVars, httpVars, loadVars, upsertVars, extractVars, scraperVars, mainVars>>
exceptExtract == <<xbrlVars, httpVars, loadVars, upsertVars, fetchVars, scraperVars, mainVars>>
exceptScraper == <<xbrlVars, httpVars, loadVars, upsertVars, fetchVars, extractVars, mainVars>>
exceptMain == <<xbrlVars, httpVars, loadVars, upsertVars, fetchVars, extractVars, scraperVars>>

(***************************************************************************)
(* The values the variables of a part hold while another part runs.        *)
(***************************************************************************)
XbrlIdle ==
    /\ kind = "rp"
    /\ xml = [wellformed |-> FALSE, elems |-> <<>>]
    /\ xpc = "idle"
    /\ facts = <<>>
    /\ fi = 1
    /\ out = EmptyOut("rp")

HttpIdle ==
    /\ req = [endpoint |-> "none"]
    /\ hpc = "idle"
    /\ raised = [class |-> "none", status |-> 0]
    /\ resp = [status |-> 0, body |-> ""]

LoadIdle ==
    /\ loader = "rpt"
    /\ files = <<>>
    /\ li = 1
    /\ lpc = "idle"
    /\ run = "first"
    /\ sqlTables = <<>>
    /\ log = <<>>

NoTables ==
    [company_detail |-> {}, balance_sheet |-> {}, profit_and_loss |-> {}]

UpsertIdle ==
    /\ db = NoTables
    /\ conn = [txn |-> "idle", view |-> NoTables, pending |-> <<>>]
    /\ job = [loader |-> "none"]
    /\ upc = "idle"
    /\ lastUpsert = <<>>

NoAnswer == [status |-> 0, retry_after |-> FALSE]

NoOutcome == [raised |-> "none", printed |-> "none", extra_delay |-> FALSE]

FetchIdle ==
    /\ caller = [site |-> "none"]
    /\ fpc = "idle"
    /\ retries = 0
    /\ answer = NoAnswer
    /\ waited = "none"
    /\ outcome = NoOutcome

ExtractIdle ==
    /\ page_source = [fault |-> FALSE]
    /\ epc = "idle"
    /\ extracted = [used |-> "none", data |-> <<>>, calls |-> <<>>]

NoResult == [raised |-> "none", returned |-> "nothing"]

ScraperIdle ==
    /\ invoked = [method |-> "none"]
    /\ rpc = "idle"
    /\ events = <<>>
    /\ ended = NoResult

MainIdle ==
    /\ tickers = <<>>
    /\ ti = 1
    /\ mpc = "idle"
    /\ processed_count = 0
    /\ error_count = 0
    /\ handled = <<>>

(***************************************************************************)
(* The groupers.                                                           *)
(***************************************************************************)
XbrlInit ==
    /\ kind \in Kinds
    /\ xml \in {[wellformed |-> FALSE, elems |-> <<>>]}
               \cup {[wellformed |-> TRUE, elems |-> d] : d \in Documents(kind)}
    /\ xpc = "start"
    /\ facts = <<>>
    /\ fi = 1
    /\ out = EmptyOut(kind)
    /\ HttpIdle /\ LoadIdle /\ UpsertIdle /\ FetchIdle /\ ExtractIdle /\ ScraperIdle /\ MainIdle

\* ET.parse, the fact loop and the `if not facts' return
ParseAndCollect ==
    /\ xpc = "start"
    /\ \/ /\ ~xml.wellformed
          /\ xpc' = "parse_error"
          /\ UNCHANGED facts
       \/ /\ xml.wellformed
          /\ facts' = collect_facts(xml.elems)
          /\ xpc' = IF facts' = <<>> THEN "no_facts" ELSE "grouping"
    /\ UNCHANGED <<kind, xml, fi, out, exceptXbrl>>

\* one iteration of `for fact in facts'
GroupStep(k) ==
    /\ kind = k
    /\ xpc = "grouping"
    /\ fi <= Len(facts)
    /\ out' = group_fact(k, out, facts[fi])
    /\ fi' = fi + 1
    /\ UNCHANGED <<kind, xml, xpc, facts, exceptXbrl>>

RelatedPartyStep == GroupStep("rp")

CorporateGovernanceStep == GroupStep("cg")

BrsrStep == GroupStep("brsr")

\* the loop is over
GroupDone ==
    /\ xpc = "grouping"
    /\ fi > Len(facts)
    /\ xpc' = "grouped"
    /\ UNCHANGED <<kind, xml, facts, fi, out, exceptXbrl>>

XbrlNext ==
    \/ ParseAndCollect
    \/ RelatedPartyStep
    \/ CorporateGovernanceStep
    \/ BrsrStep
    \/ GroupDone

SpecXbrl == XbrlInit /\ [][XbrlNext]_vars

(***************************************************************************)
(* The HTTP API: routers/annual_files.py, routers/quarterly_files.py and   *)
(* routers/ratios.py with services/ratio_service.py.                       *)
(***************************************************************************)
\* Optional[int] = None
NoYear == -1

\* the company_detail table: id -> (full_name, ticker); company 4 is unknown
company_detail ==
    (1 :> [id |-> 1, full_name |-> "Tata Consultancy Services", ticker |-> "TCS"])
 @@ (2 :> [id |-> 2, full_name |-> "Infosys", ticker |-> "INFY"])
 @@ (3 :> [id |-> 3, full_name |-> "Wipro", ticker |-> "WIPRO"])

CompanyNumbers == {1, 2, 3, 4}

\* a table cell that is NULL
Null == <<"null">>

\* the year columns mar_16 .. mar_25 of financial_ratios
FirstYearCol == 16
LastYearCol == 25

\* the financial_ratios table, in the order a SELECT returns its rows;
\* company 2 has one row, company 3 none
financial_ratios ==
    <<[company_number |-> 1, name |-> "ROCE", percent_or_not |-> TRUE,
       mar |-> [yr \in FirstYearCol..LastYearCol |->
                   IF yr = FirstYearCol THEN Null ELSE <<"num", yr>>]],
      [company_number |-> 2, name |-> "ROCE", percent_or_not |-> TRUE,
       mar |-> [yr \in FirstYearCol..LastYearCol |-> <<"num", yr + yr>>]],
      [company_number |-> 1, name |-> "Debt to equity", percent_or_not |-> FALSE,
       mar |-> [yr \in FirstYearCol..LastYearCol |-> <<"num", yr - FirstYearCol>>]]>>

\* annual_files_service / quartely_files_service: the ticker of a company
\* number, "" for None
get_ticker_from_company_number(company_number) ==
    IF company_number \in DOMAIN company_detail
    THEN company_detail[company_number].ticker
    ELSE ""

\* annual_files_service.map: ticker -> annual report file ids (2022, 2023, 2024)
annual_map ==
    ("TCS" :> <<"a22", "a23", "a24">>) @@ ("INFY" :> <<"b22">>)

\* quartely_files_service.map: ticker -> quarterly report file ids, oldest first
quarterly_map ==
    ("TCS" :> <<"q1", "q2", "q3", "q4">>) @@ ("INFY" :> <<"r3", "r4">>)

\* dict.get(key): << >> for None
map_get(map, ticker) == IF ticker \in DOMAIN map THEN map[ticker] ELSE <<>>

\* what a try block did: it returned a body, or raised an exception
Return(body) == [raised |-> "none", status |-> 200, body |-> body]

\* raise HTTPException(status_code=404, detail=...)
RaiseHTTP404(detail) ==
    [raised |-> "HTTPException", status |-> 404, body |-> detail]

\* any other exception (a failing service call, a database error)
RaiseOther == [raised |-> "Exception", status |-> 0, body |-> "error"]

\* the exception classes that `except Exception' catches: HTTPException
\* derives from Exception
CaughtByExceptException == {"HTTPException", "Exception"}

\* try: ... except Exception as e: raise HTTPException(status_code=500, ...)
except_exception(result) ==
    IF result.raised \in CaughtByExceptException
    THEN [status |-> 500, body |-> result.body]
    ELSE [status |-> result.status, body |-> result.body]

\* get_annual_files: the try block
annual_all(r) ==
    IF r.fault THEN RaiseOther
    ELSE LET ticker   == get_ticker_from_company_number(r.company_number)
             file_ids == map_get(annual_map, ticker)
         IN  IF ticker = "" THEN RaiseHTTP404("Company number not found.")
             ELSE IF file_ids = <<>>
             THEN RaiseHTTP404("No annual files found for this company.")
             ELSE Return([company_number |-> r.company_number,
                          ticker |-> ticker, annual_file_ids |-> file_ids])

\* get_quarterly_files: the try block
quarterly_all(r) ==
    IF r.fault THEN RaiseOther
    ELSE LET ticker   == get_ticker_from_company_number(r.company_number)
             file_ids == map_get(quarterly_map, ticker)
         IN  IF ticker = "" THEN RaiseHTTP404("Company number not found.")
             ELSE IF file_ids = <<>>
             THEN RaiseHTTP404("No quarterly files found for this company.")
             ELSE Return([company_number |-> r.company_number,
                          ticker |-> ticker, quarterly_file_ids |-> file_ids])

\* year_to_index.get(year): -1 for None
\* a year table that starts one year early
year_to_index_from_2021(year) ==
    CASE year = 2021 -> 0 [] year = 2022 -> 1 [] year = 2023 -> 2
      [] OTHER -> -1

year_to_index(year) ==
    CASE year = 2022 -> 0 [] year = 2023 -> 1 [] year = 2024 -> 2
      [] OTHER -> -1

\* get_annual_files_by_year: the try block
annual_by_year(r) ==
    IF r.fault THEN RaiseOther
    ELSE LET ticker   == get_ticker_from_company_number(r.company_number)
             file_ids == map_get(annual_map, ticker)
             idx      == year_to_index(r.year)
         IN  IF ticker = "" THEN RaiseHTTP404("Company number not found.")
             ELSE IF file_ids = <<>>
             THEN RaiseHTTP404("No annual files found for this company.")
             ELSE IF idx = -1 \/ idx >= Len(file_ids)
             THEN RaiseHTTP404("Annual file for the requested year not available.")
             ELSE Return([company_number |-> r.company_number,
                          ticker |-> ticker, year |-> r.year,
                          annual_file_id |-> file_ids[idx + 1]])

\* get_quarterly_files_by_quarter: the try block
quarterly_by_quarter(r) ==
    IF r.fault THEN RaiseOther
    ELSE LET ticker   == get_ticker_from_company_number(r.company_number)
             file_ids == map_get(quarterly_map, ticker)
         IN  IF ticker = "" THEN RaiseHTTP404("Company number not found.")
             ELSE IF file_ids = <<>>
             THEN RaiseHTTP404("No quarterly files found for this company.")
             ELSE IF r.quarter < 1 \/ r.quarter > 4 \/ r.quarter > Len(file_ids)
             THEN RaiseHTTP404("Quarterly file for the requested quarter not available.")
             ELSE Return([company_number |-> r.company_number,
                          ticker |-> ticker, quarter |-> r.quarter,
                          quarterly_file_id |->
                              file_ids[Len(file_ids) - r.quarter + 1]])

\* list(range(a, b))
range(a, b) == [i \in 1..(b - a) |-> a + i - 1]

\* ratio_service: the year columns selected for start_year and end_year
selected_year_cols(start_year, end_year) ==
    LET truthy(y) == y # NoYear /\ y # 0
        all_year_cols == range(FirstYearCol, LastYearCol + 1)
        start == IF truthy(start_year) THEN start_year - 2000 ELSE FirstYearCol
        end   == IF truthy(end_year) THEN end_year - 2000 ELSE LastYearCol
        cols  == IF truthy(start_year) \/ truthy(end_year)
                 THEN range(start, end + 1)
                 ELSE all_year_cols
    IN  IF cols = <<>> THEN all_year_cols ELSE cols

Range(s) == {s[i] : i \in DOMAIN s}

\* the header 'Ratio' and the header f"Mar {year}"
Ratio == <<"Ratio">>
Mar(year) == <<"Mar", year>>

\* f"{value}%" for a percentage that is not NULL, the value itself otherwise
format_cell(value, percent_or_not) ==
    IF value # Null /\ percent_or_not THEN <<"str", value[2], "%">> ELSE value

\* ratio_service: one company's object of the response
company_result(company_number, cols, ratios_data) ==
    LET company_info   == company_detail[company_number]
        company_ratios ==
            SelectSeq(ratios_data, LAMBDA row : row.company_number = company_number)
        headers == <<Ratio>> \o [i \in 1..Len(cols) |-> Mar(2000 + cols[i])]
        data_item(row) ==
            [h \in Range(headers) |->
                IF h = Ratio THEN <<"str", row.name>>
                ELSE format_cell(row.mar[h[2] - 2000], row.percent_or_not)]
    IN  [company_name   |-> company_info.full_name,
         ticker         |-> company_info.ticker,
         company_number |-> company_number,
         headers        |-> headers,
         data           |-> [i \in 1..Len(company_ratios) |->
                                 data_item(company_ratios[i])]]

\* results built from the rows of company_detail instead of the request list
ratio_results_by_company(company_numbers, cols, ratios_data) ==
    LET found == SelectSeq(range(1, 1 + Cardinality(DOMAIN company_detail)),
                           LAMBDA c : c \in Range(company_numbers))
    IN  [i \in 1..Len(found) |-> company_result(found[i], cols, ratios_data)]

\* ratio_service: the loop `for company_number in company_numbers'
RECURSIVE ratio_results(_, _, _)
ratio_results(company_numbers, cols, ratios_data) ==
    IF company_numbers = <<>> THEN <<>>
    ELSE LET company_number == Head(company_numbers)
             rest == ratio_results(Tail(company_numbers), cols, ratios_data)
         IN  IF company_number \notin DOMAIN company_detail THEN rest
             ELSE <<company_result(company_number, cols, ratios_data)>> \o rest

\* the SELECT names a column financial_ratios does not have
undefined_column(cols) ==
    \E i \in 1..Len(cols) : cols[i] \notin FirstYearCol..LastYearCol

\* ratio_service.get_predefined_ratios
get_predefined_ratios(company_numbers, start_year, end_year, fault) ==
    LET cols == selected_year_cols(start_year, end_year)
        ratios_data ==
            SelectSeq(financial_ratios,
                      LAMBDA row : row.company_number \in Range(company_numbers))
    IN  IF fault \/ undefined_column(cols) THEN RaiseOther
        ELSE Return(ratio_results(company_numbers, cols, ratios_data))

\* a get_ratios_by_parameters whose query leaves out `AND name = ANY(%s)'
get_ratios_any_name(company_numbers, parameters, start_year, end_year, fault) ==
    get_predefined_ratios(company_numbers, start_year, end_year, fault)

\* ratio_service.get_ratios_by_parameters
get_ratios_by_parameters(company_numbers, parameters, start_year, end_year, fault) ==
    LET cols == selected_year_cols(start_year, end_year)
        ratios_data ==
            SelectSeq(financial_ratios,
                      LAMBDA row : /\ row.company_number \in Range(company_numbers)
                                   /\ row.name \in parameters)
    IN  IF fault \/ undefined_column(cols) THEN RaiseOther
        ELSE Return(ratio_results(company_numbers, cols, ratios_data))

\* get_ratios: the try block
ratios_get(r) ==
    LET ratios == get_predefined_ratios(r.company_numbers, r.start_year,
                                        r.end_year, r.fault)
    IN  IF ratios.raised # "none" THEN ratios
        ELSE IF ratios.body = <<>>
        THEN RaiseHTTP404("No ratio data found for the specified companies.")
        ELSE ratios

\* get_ratios_by_parameters_endpoint: the try block
ratios_post(r) ==
    LET ratios == get_ratios_by_parameters(r.company_numbers, r.parameters,
                                           r.start_year, r.end_year, r.fault)
    IN  IF ratios.raised # "none" THEN ratios
        ELSE IF \/ ratios.body = <<>>
                \/ ~\E i \in 1..Len(ratios.body) : ratios.body[i].data # <<>>
        THEN RaiseHTTP404("No ratio data found for the specified companies and parameters.")
        ELSE ratios

\* the requests
Years == {2021, 2022, 2023, 2024, 2025}
Quarters == 0..5
YearParams == {NoYear, 0, 2015, 2016, 2024, 2025, 2026}
ParameterLists == {{}, {"ROCE"}, {"ROCE", "Debt to equity"}, {"EPS"}}

Requests ==
    {[endpoint |-> e, company_number |-> c, fault |-> f] :
        e \in {"GET /annual/all", "GET /quarterly/all"},
        c \in CompanyNumbers, f \in BOOLEAN}
    \cup {[endpoint |-> "GET /yearly", company_number |-> c, year |-> y,
           fault |-> f] : c \in CompanyNumbers, y \in Years, f \in BOOLEAN}
    \cup {[endpoint |-> "GET /quarterly", company_number |-> c, quarter |-> q,
           fault |-> f] : c \in CompanyNumbers, q \in Quarters, f \in BOOLEAN}
    \cup {[endpoint |-> "GET /ratios", company_numbers |-> cs,
           start_year |-> s, end_year |-> e, fault |-> f] :
             cs \in SeqsUpTo(CompanyNumbers, MaxCompanies) \ {<<>>},
             s \in YearParams, e \in YearParams, f \in BOOLEAN}
    \cup {[endpoint |-> "POST /ratios/parameters", company_numbers |-> cs,
           parameters |-> ps, start_year |-> s, end_year |-> e, fault |-> f] :
             cs \in SeqsUpTo(CompanyNumbers, MaxCompanies) \ {<<>>},
             ps \in ParameterLists,
             s \in YearParams, e \in YearParams, f \in BOOLEAN}

HttpInit ==
    /\ req \in Requests
    /\ hpc = "received"
    /\ raised = [class |-> "none", status |-> 0]
    /\ resp = [status |-> 0, body |-> ""]
    /\ XbrlIdle /\ LoadIdle /\ UpsertIdle /\ FetchIdle /\ ExtractIdle /\ ScraperIdle /\ MainIdle

\* a handler runs: its try block, then its except clause
Respond(endpoint, result) ==
    /\ hpc = "received"
    /\ req.endpoint = endpoint
    /\ raised' = [class |-> result.raised, status |-> result.status]
    /\ resp' = except_exception(result)
    /\ hpc' = "responded"
    /\ UNCHANGED <<req, exceptHttp>>

get_annual_files == Respond("GET /annual/all", annual_all(req))

get_annual_files_by_year == Respond("GET /yearly", annual_by_year(req))

get_quarterly_files == Respond("GET /quarterly/all", quarterly_all(req))

get_quarterly_files_by_quarter ==
    Respond("GET /quarterly", quarterly_by_quarter(req))

get_ratios == Respond("GET /ratios", ratios_get(req))

get_ratios_by_parameters_endpoint ==
    Respond("POST /ratios/parameters", ratios_post(req))

HttpNext ==
    \/ get_annual_files
    \/ get_annual_files_by_year
    \/ get_quarterly_files
    \/ get_quarterly_files_by_quarter
    \/ get_ratios
    \/ get_ratios_by_parameters_endpoint

SpecHttp == HttpInit /\ [][HttpNext]_vars

\* C1: on every file-id and ratio endpoint a missing lookup (the handler
\* raised HTTPException 404) is answered with status 404, and status 500 is
\* returned only when some other exception occurred.
C1_MissingLookupIs404 ==
    hpc = "responded" =>
        /\ (raised.class = "HTTPException" /\ raised.status = 404)
              => resp.status = 404
        /\ resp.status = 500 => raised.class = "Exception"

(***************************************************************************)
(* The loaders that write XBRL files to the database: the main block of    *)
(* xml_to_excel.py (table rpt) and xml_to_sql_cg.py (four cg_ tables).     *)
(* A file is [ticker, status, elems]: the file name without ".xml", what   *)
(* the parser makes of it, and its elements in document order (the root,   *)
(* which carries no fact, left out).  For a malformed file elems are the   *)
(* elements that precede the error.                                        *)
(***************************************************************************)
\* "NameOfTheCompany"
s_NameOfTheCompany ==
    <<"N","a","m","e","O","f","T","h","e","C","o","m","p","a","n","y">>
\* "ScripCode"
s_ScripCode ==
    <<"S","c","r","i","p","C","o","d","e">>
\* "TransactionID"
s_TransactionID ==
    <<"T","r","a","n","s","a","c","t","i","o","n","I","D">>
\* "CompanyName"
s_CompanyName ==
    <<"C","o","m","p","a","n","y","N","a","m","e">>
\* "Unknown"
s_Unknown ==
    <<"U","n","k","n","o","w","n">>
\* "DatesOfMeetingInThePreviousQuarter"
s_DatesOfMeetingInThePreviousQuarter ==
    <<"D","a","t","e","s","O","f","M","e","e","t","i","n","g","I","n",
      "T","h","e","P","r","e","v","i","o","u","s","Q","u","a","r","t",
      "e","r">>
\* "DatesOfMeetingIfAnyInTheRelevantQuarter"
s_DatesOfMeetingIfAnyInTheRelevantQuarter ==
    <<"D","a","t","e","s","O","f","M","e","e","t","i","n","g","I","f",
      "A","n","y","I","n","T","h","e","R","e","l","e","v","a","n","t",
      "Q","u","a","r","t","e","r">>
\* "DatesOfMeetingOfTheCommitteeInThePreviousQuarter"
s_DatesOfMeetingOfTheCommitteeInThePreviousQuarter ==
    <<"D","a","t","e","s","O","f","M","e","e","t","i","n","g","O","f",
      "T","h","e","C","o","m","m","i","t","t","e","e","I","n","T","h",
      "e","P","r","e","v","i","o","u","s","Q","u","a","r","t","e","r">>
\* "DatesOfMeetingOfTheCommitteeInTheRelevantQuarter"
s_DatesOfMeetingOfTheCommitteeInTheRelevantQuarter ==
    <<"D","a","t","e","s","O","f","M","e","e","t","i","n","g","O","f",
      "T","h","e","C","o","m","m","i","t","t","e","e","I","n","T","h",
      "e","R","e","l","e","v","a","n","t","Q","u","a","r","t","e","r">>
\* "01-04-2024"
s_date1 ==
    <<"0","1","-","0","4","-","2","0","2","4">>
\* "01-07-2024"
s_date2 ==
    <<"0","1","-","0","7","-","2","0","2","4">>

\* mutant of ET_parse: a parser that recovers what it can from any file
ET_parse_recovering(file) == [raised |-> "none", root |-> file.elems]

\* ET.parse(xml_file): the tree, or the exception raised
ET_parse(file) ==
    CASE file.status = "malformed" -> [raised |-> "ParseError", root |-> <<>>]
      [] file.status = "unsupported_encoding" ->
             [raised |-> "LookupError", root |-> <<>>]
      [] OTHER -> [raised |-> "none", root |-> file.elems]

\* root.findtext('.//{*}name', default=default)
findtext(elems, name, default) ==
    LET found == {i \in 1..Len(elems) : local_name(elems[i].tag) = name}
    IN  IF found = {} THEN default
        ELSE LET first == CHOOSE i \in found : \A j \in found : i <= j
             IN  IF elems[first].text = None THEN <<>> ELSE elems[first].text

\* the ids of a dictionary of groups, in ascending order
RECURSIVE sorted_ids(_)
sorted_ids(ids) ==
    IF ids = {} THEN <<>>
    ELSE LET least == CHOOSE i \in ids : \A j \in ids : i <= j
         IN  <<least>> \o sorted_ids(ids \ {least})

\* for fact in facts: ... over a grouper's loop body
RECURSIVE group_facts(_, _, _)
group_facts(k, acc, facts_) ==
    IF facts_ = <<>> THEN acc
    ELSE group_facts(k, group_fact(k, acc, Head(facts_)), Tail(facts_))

\* dict without some keys
dict_without(d, keys) == [k \in (DOMAIN d) \ keys |-> d[k]]

\* xml_to_excel.py parse_xbrl_to_grouped_df: the rows of the DataFrame (one
\* per transaction id, listed by id), the messages printed, the exception
\* that escapes
parse_xbrl_to_grouped_df(file) ==
    LET tree == ET_parse(file)
        facts_ == collect_facts(tree.root)
        grouped_facts ==
            group_facts("rp", EmptyOut("rp"), facts_).tables["grouped_facts"]
        company_name == findtext(tree.root, s_NameOfTheCompany, s_Unknown)
        scrip_code == findtext(tree.root, s_ScripCode, s_Unknown)
        ids == sorted_ids(DOMAIN grouped_facts)
        transaction_list ==
            [n \in 1..Len(ids) |->
                [TransactionID |-> ids[n],
                 CompanyName   |-> company_name,
                 ScripCode     |-> scrip_code,
                 details       |->
                     dict_without(grouped_facts[ids[n]],
                                  {s_TransactionID, s_CompanyName, s_ScripCode})]]
    IN  IF tree.raised = "ParseError"
        THEN [raised |-> "none", df |-> <<>>,
              printed |-> <<[msg |-> "Error parsing XML file",
                             reason |-> "ParseError"]>>]
        ELSE IF tree.raised # "none"
        THEN [raised |-> tree.raised, df |-> <<>>, printed |-> <<>>]
        ELSE IF facts_ = <<>>
        THEN [raised |-> "none", df |-> <<>>, printed |-> <<>>]
        ELSE [raised |-> "none", df |-> transaction_list, printed |-> <<>>]

\* the rows of a DataFrame, each marked with the file it was derived from
from_file(df, i) == [n \in 1..Len(df) |-> [from_file |-> i, row |-> df[n]]]

\* the messages printed while a file is processed
printed_for(printed, i) ==
    [n \in 1..Len(printed) |->
        [file |-> i, msg |-> printed[n].msg, reason |-> printed[n].reason]]

\* xml_to_sql_cg.py get_company_no: the id of the ticker in company_detail,
\* 0 for None
get_company_no(ticker) ==
    LET ids == {c \in DOMAIN company_detail : company_detail[c].ticker = ticker}
    IN  IF ids = {} THEN 0 ELSE CHOOSE c \in ids : TRUE

\* a grouping loop without the `if match' test: item 0 for no trailing digits
RECURSIVE sql_cg_groups_any_suffix(_, _)
sql_cg_groups_any_suffix(facts_, marker) ==
    IF facts_ = <<>> THEN EmptyDict
    ELSE LET fact   == facts_[Len(facts_)]
             groups == sql_cg_groups_any_suffix(Front(facts_), marker)
         IN  IF contains(fact.context, marker)
             THEN group_set(groups, int(id_pattern_search(fact.context)),
                            fact.element_name, fact.fact_value)
             ELSE groups

\* xml_to_sql_cg.py: one of the four grouping loops
RECURSIVE sql_cg_groups(_, _)
sql_cg_groups(facts_, marker) ==
    IF facts_ = <<>> THEN EmptyDict
    ELSE LET fact   == facts_[Len(facts_)]
             groups == sql_cg_groups(Front(facts_), marker)
             match  == id_pattern_search(fact.context)
         IN  IF contains(fact.context, marker) /\ match # <<>>
             THEN group_set(groups, int(match), fact.element_name,
                            fact.fact_value)
             ELSE groups

\* the four steps of process_cg_files in order: the table, the context
\* marker, and the two date columns the meeting steps read
CgSteps ==
    <<[table |-> "cg_board_composition", marker |-> s_CompBOD,
       previous |-> None, relevant |-> None],
      [table |-> "cg_committee_composition", marker |-> s_CompComit,
       previous |-> None, relevant |-> None],
      [table |-> "cg_board_meetings", marker |-> s_MeetingBOD,
       previous |-> s_DatesOfMeetingInThePreviousQuarter,
       relevant |-> s_DatesOfMeetingIfAnyInTheRelevantQuarter],
      [table |-> "cg_committee_meetings", marker |-> s_MeetingComit,
       previous |-> s_DatesOfMeetingOfTheCommitteeInThePreviousQuarter,
       relevant |-> s_DatesOfMeetingOfTheCommitteeInTheRelevantQuarter]>>

CgTables == {CgSteps[n].table : n \in DOMAIN CgSteps}

\* df.columns of pd.DataFrame(groups.values())
columns(groups) == UNION {DOMAIN groups[id] : id \in DOMAIN groups}

\* the DataFrame one step of process_cg_files writes, or the KeyError of
\* df['Dates...'] when no group has that field
cg_frame(step, groups, company_no) ==
    LET ids == sorted_ids(DOMAIN groups)
        meeting == step.previous # None
        row(id) ==
            IF meeting
            THEN [company_no   |-> company_no,
                  item         |-> id,
                  details      |-> groups[id],
                  meeting_date |->
                      IF step.previous \in DOMAIN groups[id]
                      THEN groups[id][step.previous]
                      ELSE IF step.relevant \in DOMAIN groups[id]
                      THEN groups[id][step.relevant]
                      ELSE None,
                  meeting_type |->
                      IF step.previous \in DOMAIN groups[id]
                      THEN "Previous Quarter" ELSE "Relevant Quarter"]
            ELSE [company_no |-> company_no, item |-> id,
                  details |-> groups[id]]
    IN  IF meeting /\ ~({step.previous, step.relevant} \subseteq columns(groups))
        THEN [raised |-> "KeyError", df |-> <<>>]
        ELSE [raised |-> "none", df |-> [n \in 1..Len(ids) |-> row(ids[n])]]

\* a loader whose failing step takes back what the earlier steps of the file
\* appended
RECURSIVE cg_steps_rolled_back(_, _, _, _, _)
cg_steps_rolled_back(n, facts_, company_no, fail_at, acc) ==
    IF n > Len(CgSteps) THEN acc
    ELSE LET step   == CgSteps[n]
             groups == sql_cg_groups(facts_, step.marker)
             frame  == cg_frame(step, groups, company_no)
             undone == [t \in DOMAIN acc.appended |-> <<>>]
         IN  IF groups = EmptyDict
             THEN cg_steps_rolled_back(n + 1, facts_, company_no, fail_at, acc)
             ELSE IF frame.raised # "none"
             THEN [acc EXCEPT !.raised = frame.raised, !.appended = undone]
             ELSE IF fail_at = step.table
             THEN [acc EXCEPT !.raised = "SQLAlchemyError", !.appended = undone]
             ELSE cg_steps_rolled_back(n + 1, facts_, company_no, fail_at,
                      [acc EXCEPT
                          !.appended[step.table] = frame.df,
                          !.printed = @ \o <<[msg |-> "SUCCESS",
                                              reason |-> step.table]>>])

\* process_cg_files: steps n.. of the try block for one file; fail_at names
\* the table whose to_sql raises, if it is reached
RECURSIVE cg_steps_from(_, _, _, _, _)
cg_steps_from(n, facts_, company_no, fail_at, acc) ==
    IF n > Len(CgSteps) THEN acc
    ELSE LET step   == CgSteps[n]
             groups == sql_cg_groups(facts_, step.marker)
             frame  == cg_frame(step, groups, company_no)
         IN  IF groups = EmptyDict
             THEN cg_steps_from(n + 1, facts_, company_no, fail_at, acc)
             ELSE IF frame.raised # "none"
             THEN [acc EXCEPT !.raised = frame.raised]
             ELSE IF fail_at = step.table
             THEN [acc EXCEPT !.raised = "SQLAlchemyError"]
             ELSE cg_steps_from(n + 1, facts_, company_no, fail_at,
                      [acc EXCEPT
                          !.appended[step.table] = frame.df,
                          !.printed = @ \o <<[msg |-> "SUCCESS",
                                              reason |-> step.table]>>])

\* process_cg_files: the body of the loop for one file
cg_process_file(file, lookup_fails, fail_at) ==
    LET company_no == get_company_no(file.ticker)
        tree       == ET_parse(file)
        nothing    == [t \in CgTables |-> <<>>]
        steps      == cg_steps_from(1, collect_facts(tree.root), company_no,
                          fail_at,
                          [raised |-> "none", appended |-> nothing,
                           printed |-> <<>>])
        failed(reason) == <<[msg |-> "Failed to process file",
                             reason |-> reason]>>
    IN  IF lookup_fails
        THEN [appended |-> nothing,
              printed |-> <<[msg |-> "Database query failed",
                             reason |-> "SQLAlchemyError"]>>]
        ELSE IF company_no = 0
        THEN [appended |-> nothing,
              printed |-> <<[msg |-> "Ticker not found", reason |-> "none"]>>]
        ELSE IF tree.raised # "none"
        THEN [appended |-> nothing, printed |-> failed(tree.raised)]
        ELSE IF steps.raised # "none"
        THEN [appended |-> steps.appended,
              printed |-> steps.printed \o failed(steps.raised)]
        ELSE [appended |-> steps.appended, printed |-> steps.printed]

\* the files of the folder
RptDocuments ==
    {<<Element(tag_NameOfCounterParty, ctx_D_RPT12, s_AcmeLtd),
       Element(tag_Amount, ctx_RPT_PY7, s_500_padded)>>,
     <<Element(s_NameOfTheCompany, None, s_AcmeLtd),
       Element(tag_Amount, ctx_D_RPT7, s_500)>>,
     <<Element(tag_Amount, s_MainD, s_500)>>}

CgDocuments ==
    {<<Element(tag_NameOfCounterParty, ctx_CompBOD1, s_AcmeLtd),
       Element(tag_NameOfCounterParty, ctx_CompComit1, s_AcmeLtd),
       Element(s_DatesOfMeetingInThePreviousQuarter, ctx_MeetingBOD1, s_date1),
       Element(s_DatesOfMeetingIfAnyInTheRelevantQuarter, ctx_MeetingBOD1, s_date2),
       Element(s_DatesOfMeetingOfTheCommitteeInThePreviousQuarter,
               ctx_MeetingComit2, s_date1),
       Element(s_DatesOfMeetingOfTheCommitteeInTheRelevantQuarter,
               ctx_MeetingComit2, s_date2)>>,
     <<Element(tag_NameOfCounterParty, ctx_CompBOD1, s_AcmeLtd),
       Element(tag_Amount, ctx_MeetingBOD1, s_500)>>}

FileStatuses == {"wellformed", "malformed", "unsupported_encoding"}

LoadFiles(l) ==
    IF l = "rpt"
    THEN {[ticker |-> "TCS", status |-> s, elems |-> d] :
             s \in FileStatuses, d \in RptDocuments}
    ELSE {[ticker |-> t, status |-> s, elems |-> d] :
             t \in {"TCS", "NOSUCH"}, s \in FileStatuses, d \in CgDocuments}

LoadTables(l) == IF l = "rpt" THEN {"rpt"} ELSE CgTables

LoadInit ==
    /\ loader \in {"rpt", "cg"}
    /\ files \in SeqsUpTo(LoadFiles(loader), MaxFiles)
    /\ li = 1
    /\ lpc = "loop"
    /\ run = "first"
    /\ sqlTables = [t \in LoadTables(loader) |-> <<>>]
    /\ log = <<>>
    /\ XbrlIdle /\ HttpIdle /\ UpsertIdle /\ FetchIdle /\ ExtractIdle /\ ScraperIdle /\ MainIdle

\* xml_to_excel.py: one iteration of `for filename in os.listdir(rpt_folder)'
RptLoadFile ==
    /\ loader = "rpt" /\ lpc = "loop" /\ li <= Len(files)
    /\ LET parsed == parse_xbrl_to_grouped_df(files[li])
           info(msg, reason) == <<[file |-> li, msg |-> msg, reason |-> reason]>>
       IN  IF parsed.raised # "none"
           THEN /\ lpc' = "crashed"
                /\ UNCHANGED <<li, sqlTables, log>>
           ELSE IF parsed.df = <<>>
           THEN /\ log' = log \o printed_for(parsed.printed, li)
                               \o info("No data to insert", "none")
                /\ li' = li + 1
                /\ UNCHANGED <<lpc, sqlTables>>
           ELSE \E to_sql_raises \in BOOLEAN :
                  /\ li' = li + 1
                  /\ UNCHANGED lpc
                  /\ IF to_sql_raises
                     THEN /\ log' = log \o info("Could not insert data",
                                                "SQLAlchemyError")
                          /\ UNCHANGED sqlTables
                     ELSE /\ log' = log \o info("SUCCESS", "rpt")
                          /\ sqlTables' =
                                 [sqlTables EXCEPT
                                     !["rpt"] = @ \o from_file(parsed.df, li)]
    /\ UNCHANGED <<loader, files, run, exceptLoad>>

\* xml_to_sql_cg.py: one iteration of `for filename in os.listdir(cg_folder)'
CgLoadFile ==
    /\ loader = "cg" /\ lpc = "loop" /\ li <= Len(files)
    /\ \E lookup_fails \in BOOLEAN, fail_at \in {"none"} \cup CgTables :
          LET done == cg_process_file(files[li], lookup_fails, fail_at)
          IN  /\ sqlTables' =
                     [t \in CgTables |->
                         sqlTables[t] \o from_file(done.appended[t], li)]
              /\ log' = log \o printed_for(done.printed, li)
    /\ li' = li + 1
    /\ UNCHANGED <<loader, files, lpc, run, exceptLoad>>

\* the folder is exhausted
LoadDone ==
    /\ lpc = "loop" /\ li > Len(files)
    /\ lpc' = "done"
    /\ UNCHANGED <<loader, files, li, run, sqlTables, log, exceptLoad>>

\* the script is started once more on the same folder and the same database
\* (a new process: its loop starts at the first file, with nothing printed)
LoadAgain ==
    /\ lpc = "done" /\ run = "first"
    /\ run' = "again"
    /\ li' = 1
    /\ lpc' = "loop"
    /\ log' = <<>>
    /\ UNCHANGED <<loader, files, sqlTables, exceptLoad>>

LoadNext == RptLoadFile \/ CgLoadFile \/ LoadDone

SpecLoad == LoadInit /\ [][LoadNext]_vars

\* the loop moves: it goes to the next file, ends or is left by an exception
\* (every step of LoadNext is such a step, and one is possible exactly while
\* the loop runs)
Advance ==
    /\ lpc = "loop"
    /\ li' \in {li, li + 1}
    /\ lpc' \in {"loop", "done", "crashed"}

\* the interpreter runs the script on: a loop that can move does move
SpecLoadFair == SpecLoad /\ WF_<<li, lpc>>(Advance)

\* the same loaders on a folder of well-formed files, run once and then again
ReloadInit ==
    /\ LoadInit
    /\ \A i \in DOMAIN files : files[i].status = "wellformed"

ReloadNext == RptLoadFile \/ CgLoadFile \/ LoadDone \/ LoadAgain

SpecReload == ReloadInit /\ [][ReloadNext]_vars

(***************************************************************************)
(* The scrapers that upsert into balance_sheet and profit_and_loss:        *)
(* scrape_main_rows.py (both tables, one transaction per ticker) and       *)
(* scrap_finchat.py store_balance_sheet_data (balance_sheet).              *)
(* A table is the set of its rows [company_id, report_date, parameter,     *)
(* value]; a date is [year, month, day]; a float is [num, scale], the      *)
(* number num / 10^scale with no trailing zero in the fraction.            *)
(***************************************************************************)
\* "10", "20", "-", the em dash (one character, written out) and ""
s_10 == <<"1", "0">>
s_20 == <<"2", "0">>
s_dash == <<"-">>
s_emdash == <<"EM DASH">>
s_empty == <<>>

\* the column headers of a page: "Mar 2017", "2017-03-31", "TTM"
MonYYYY(month, year) == [kind |-> "Mon YYYY", month |-> month, year |-> year]
ISO(year, month, day) ==
    [kind |-> "YYYY-MM-DD", date |-> [year |-> year, month |-> month, day |-> day]]
Other(text) == [kind |-> "other", text |-> text]

\* calendar.monthrange(year, month)[1]
monthrange(year, month) ==
    IF month = 2
    THEN IF year % 4 = 0 /\ (year % 100 # 0 \/ year % 400 = 0) THEN 29 ELSE 28
    ELSE IF month \in {4, 6, 9, 11} THEN 30 ELSE 31

\* scrape_main_rows.format_date: a YYYY-MM-DD header as it is, "Mon YYYY" as
\* the last day of that month; for anything else pd.to_datetime is called,
\* pd is not imported, the NameError is caught and the header is returned
\* unchanged
format_date(date_str) ==
    CASE date_str.kind = "YYYY-MM-DD" -> date_str.date
      [] date_str.kind = "Mon YYYY" ->
             [year |-> date_str.year, month |-> date_str.month,
              day |-> monthrange(date_str.year, date_str.month)]
      [] OTHER -> date_str

\* what PostgreSQL accepts for a date column
IsDate(x) ==
    /\ DOMAIN x = {"year", "month", "day"}
    /\ x.month \in 1..12
    /\ x.day \in 1..monthrange(x.year, x.month)

\* re.sub(r'[^\d.-]', '', value_str)
sub_non_numeric(s) == SelectSeq(s, LAMBDA c : c \in DigitChars \cup {".", "-"})

ValueError == [raised |-> "ValueError"]

\* None where a float is expected
NoValue == [none |-> TRUE]

\* drop the zeros a fraction ends in
RECURSIVE normalise(_)
normalise(f) ==
    IF f.scale > 0 /\ f.num % 10 = 0
    THEN normalise([num |-> f.num \div 10, scale |-> f.scale - 1])
    ELSE f

\* float(s) for a string of the characters 0-9 . -
float(s) ==
    LET negative == s # <<>> /\ s[1] = "-"
        body     == IF negative THEN Tail(s) ELSE s
        dots     == {i \in 1..Len(body) : body[i] = "."}
        digits   == SelectSeq(body, LAMBDA c : c \in DigitChars)
        point    == CHOOSE i \in dots : TRUE
        magnitude == normalise([num |-> int(digits),
                                scale |-> IF dots = {} THEN 0
                                          ELSE Len(body) - point])
    IN  IF \/ digits = <<>>
           \/ Cardinality(dots) > 1
           \/ \E i \in 1..Len(body) : body[i] = "-"
        THEN ValueError
        ELSE IF negative
        THEN [num |-> 0 - magnitude.num, scale |-> magnitude.scale]
        ELSE magnitude

\* scrape_main_rows.format_value for a str
format_value(value_str) ==
    IF value_str \in {s_empty, s_dash, s_emdash} THEN NoValue
    ELSE LET value == float(sub_non_numeric(value_str))
         IN  IF value = ValueError THEN NoValue ELSE value

\* the unique key (company_id, report_date, parameter) of a row
key(row) == <<row.company_id, row.report_date, row.parameter>>

\* mutant of upsert: ON CONFLICT (...) DO NOTHING
upsert_do_nothing(rows, row) ==
    IF \E old \in rows : key(old) = key(row) THEN rows ELSE rows \cup {row}

\* INSERT ... ON CONFLICT (company_id, report_date, parameter)
\* DO UPDATE SET value = EXCLUDED.value
upsert(rows, row) ==
    {old \in rows : key(old) # key(row)} \cup {row}

\* cursor.execute of the upsert on a connection: an error inside a
\* transaction leaves it failed, and a failed transaction refuses statements
execute(c, table, row) ==
    IF c.txn = "failed" THEN c
    ELSE IF ~IsDate(row.report_date) THEN [c EXCEPT !.txn = "failed"]
    ELSE [txn     |-> "open",
          view    |-> [c.view EXCEPT ![table] = upsert(@, row)],
          pending |-> dict_set(c.pending, <<table, key(row)>>, row.value)]

\* scrape_main_rows.insert_rows: pairs n.. of zip(report_dates, values)
RECURSIVE insert_rows_from(_, _, _, _, _, _, _)
insert_rows_from(n, c, table, company_id, report_dates, row_name, values) ==
    IF n > Len(report_dates) \/ n > Len(values) THEN c
    ELSE LET date  == report_dates[n]
             value == values[n]
             formatted_date  == format_date(date)
             formatted_value == format_value(value)
             next(c2) == insert_rows_from(n + 1, c2, table, company_id,
                                          report_dates, row_name, values)
         IN  IF value \in {s_empty, s_dash, s_emdash} THEN next(c)
             ELSE IF formatted_date = Other("") \/ formatted_value = NoValue
             THEN next(c)
             ELSE next(execute(c, table,
                               [company_id  |-> company_id,
                                report_date |-> formatted_date,
                                parameter   |-> row_name,
                                value       |-> formatted_value]))

insert_rows(c, table, company_id, report_dates, row_name, values) ==
    insert_rows_from(1, c, table, company_id, report_dates, row_name, values)

\* scrape_main_rows.main: `for row_name, values in rows: insert_rows(...)'
RECURSIVE insert_section(_, _, _, _)
insert_section(c, table, company_id, section) ==
    IF section.rows = <<>> THEN c
    ELSE LET first == Head(section.rows)
         IN  insert_section(
                 insert_rows(c, table, company_id, section.dates,
                             first.row_name, first.values),
                 table, company_id,
                 [section EXCEPT !.rows = Tail(section.rows)])

\* scrape_main_rows.get_company_id: the id of the ticker, inserted when
\* missing (the new id taken as the next after the largest one in use)
new_company_id(companies) ==
    1 + Cardinality({c.id : c \in companies})

get_company_id(c, ticker) ==
    LET found == {d \in c.view.company_detail : d.ticker = ticker}
    IN  IF found # {}
        THEN [c EXCEPT !.txn = "open"]
        ELSE [c EXCEPT !.txn = "open",
                       !.view.company_detail =
                           @ \cup {[id |-> new_company_id(@), ticker |-> ticker]}]

company_id_of(c, ticker) ==
    (CHOOSE d \in c.view.company_detail : d.ticker = ticker).id

\* a commit that would keep what a failed transaction wrote before its error
commit_keeps_partial(c, committed) == c.view

\* conn.commit(): a failed transaction is rolled back instead
commit(c, committed) == IF c.txn = "failed" THEN committed ELSE c.view

\* a connection with no transaction open
Connection(committed) == [txn |-> "idle", view |-> committed, pending |-> <<>>]

\* the history of committed upserts after a commit of the pending ones
recorded(history, pending) ==
    [k \in (DOMAIN history) \cup (DOMAIN pending) |->
        IF k \in DOMAIN pending THEN pending[k] ELSE history[k]]

\* scrap_finchat.store_balance_sheet_data: execute_batch(cursor, query, records)
RECURSIVE execute_batch(_, _, _)
execute_batch(c, company_id, data) ==
    IF data = <<>> THEN c
    ELSE execute_batch(
             execute(c, "balance_sheet",
                     [company_id  |-> company_id,
                      report_date |-> Head(data).report_date,
                      parameter   |-> Head(data).parameter,
                      value       |-> Head(data).value]),
             company_id, Tail(data))

\* the scraped pages and data
ReportDates == {MonYYYY(3, 2017), ISO(2017, 3, 31), Other("TTM")}

CellTexts == {s_10, s_20, s_dash}

NoSection == [dates |-> <<>>, rows |-> <<>>]

\* a section of the page as get_report_dates and parse_table_rows return it,
\* with at most one of the wanted rows (PL_ROWS, BS_ROWS)
Sections(row_name) ==
    {[dates |-> ds, rows |-> rs] :
        ds \in SeqsUpTo(ReportDates, MaxCols),
        rs \in {<<>>} \cup {<<[row_name |-> row_name, values |-> vs]>> :
                              vs \in SeqsUpTo(CellTexts, MaxCols)}}

NoPage == [profit_loss |-> NoSection, balance_sheet |-> NoSection]

\* pages with a profit-loss section, a balance-sheet section, or both with
\* the same columns and cells
Pages ==
    {[profit_loss |-> s, balance_sheet |-> NoSection] : s \in Sections("Expenses")}
    \cup {[profit_loss |-> NoSection, balance_sheet |-> s] :
             s \in Sections("Total Assets")}
    \cup {[profit_loss |-> [s EXCEPT !.rows =
                               [n \in DOMAIN s.rows |->
                                   [s.rows[n] EXCEPT !.row_name = "Expenses"]]],
           balance_sheet |-> s] : s \in Sections("Total Assets")}

TICKERS == {"TCS", "ITC"}

FinChatData ==
    SeqsUpTo({[parameter |-> "Total Assets",
               report_date |-> [year |-> 2017, month |-> 3, day |-> 31],
               value |-> float(v)] : v \in {s_10, s_20}}, MaxItems)

UpsertInit ==
    /\ db = [NoTables EXCEPT !.company_detail = {[id |-> 1, ticker |-> "TCS"]}]
    /\ conn = Connection(db)
    /\ job = [loader |-> "none"]
    /\ upc = "idle"
    /\ lastUpsert = <<>>
    /\ XbrlIdle /\ HttpIdle /\ LoadIdle /\ FetchIdle /\ ExtractIdle /\ ScraperIdle /\ MainIdle

\* scrape_main_rows.main: the start of an iteration, up to get_company_id;
\* a failing fetch (no page) goes to the except clause
screener_begin(ticker, page, fetched, reload) ==
    /\ job' = [loader |-> "screener", ticker |-> ticker, data |-> page,
               reload |-> reload]
    /\ IF fetched
       THEN /\ conn' = get_company_id(Connection(db), ticker)
            /\ upc' = "profit_and_loss"
       ELSE /\ conn' = Connection(db)
            /\ upc' = "rolled_back"
    /\ UNCHANGED <<db, lastUpsert, exceptUpsert>>

ScreenerFetch ==
    /\ upc = "idle"
    /\ \/ \E ticker \in TICKERS, page \in Pages :
             screener_begin(ticker, page, TRUE, FALSE)
       \/ \E ticker \in TICKERS : screener_begin(ticker, NoPage, FALSE, FALSE)

\* the script is run again and a ticker whose load was committed shows the
\* same page
ScreenerReload ==
    /\ upc = "committed" /\ job.loader = "screener"
    /\ screener_begin(job.ticker, job.data, TRUE, TRUE)

\* scrape_main_rows.main: the rows of one section
ScreenerInsert ==
    /\ upc \in {"profit_and_loss", "balance_sheet"}
    /\ LET company_id == company_id_of(conn, job.ticker)
       IN  IF upc = "profit_and_loss"
           THEN /\ conn' = insert_section(conn, "profit_and_loss", company_id,
                                          job.data.profit_loss)
                /\ upc' = "balance_sheet"
           ELSE /\ conn' = insert_section(conn, "balance_sheet", company_id,
                                          job.data.balance_sheet)
                /\ upc' = "commit"
    /\ UNCHANGED <<db, job, lastUpsert, exceptUpsert>>

\* scrape_main_rows.main: conn.commit()
ScreenerCommit ==
    /\ upc = "commit"
    /\ db' = commit(conn, db)
    /\ conn' = Connection(db')
    /\ IF conn.txn = "failed"
       THEN upc' = "rolled_back" /\ UNCHANGED lastUpsert
       ELSE upc' = "committed" /\ lastUpsert' = recorded(lastUpsert, conn.pending)
    /\ UNCHANGED <<job, exceptUpsert>>

\* scrap_finchat.store_balance_sheet_data(company_id, data), on a connection
\* of its own; error is an exception of execute_batch or commit
finchat_store(company, data, error, reload) ==
    LET c == execute_batch(Connection(db), company.id, data)
    IN  /\ job' = [loader |-> "finchat", ticker |-> company.ticker,
                   data |-> data, reload |-> reload]
        /\ IF error \/ c.txn = "failed"
           THEN /\ upc' = "rolled_back"
                /\ UNCHANGED <<db, lastUpsert>>
           ELSE /\ upc' = "committed"
                /\ db' = c.view
                /\ lastUpsert' = recorded(lastUpsert, c.pending)
        /\ conn' = Connection(db')
        /\ UNCHANGED exceptUpsert

store_balance_sheet_data ==
    /\ upc = "idle"
    /\ \E company \in db.company_detail, data \in FinChatData \ {<<>>},
          error \in BOOLEAN :
          finchat_store(company, data, error, FALSE)

\* the scraper is run again and a company whose load was committed yields
\* the same data
FinChatReload ==
    /\ upc = "committed" /\ job.loader = "finchat"
    /\ \E company \in {d \in db.company_detail : d.ticker = job.ticker} :
          finchat_store(company, job.data, FALSE, TRUE)

\* the loop goes on to the next ticker or company
NextCompany ==
    /\ upc \in {"committed", "rolled_back"}
    /\ upc' = "idle"
    /\ job' = [loader |-> "none"]
    /\ UNCHANGED <<db, conn, lastUpsert, exceptUpsert>>

UpsertNext ==
    \/ ScreenerFetch
    \/ ScreenerInsert
    \/ ScreenerCommit
    \/ store_balance_sheet_data
    \/ ScreenerReload
    \/ FinChatReload
    \/ NextCompany

SpecUpsert == UpsertInit /\ [][UpsertNext]_vars

(***************************************************************************)
(* Outbound HTTP requests of the screener scrapers: get_html_content and   *)
(* the schedules API call of scrape_it.py, and the page request of         *)
(* scrape_main_rows.main.  A request is sent through a requests session;   *)
(* the adapter mounted on the session holds the urllib3 Retry              *)
(* configuration that decides whether a response is retried.               *)
(***************************************************************************)
total == 5

status_forcelist == {429, 500, 502, 503, 504}

\* the Retry configuration of the adapter the call site sends through:
\* scrape_it.py mounts its own on a new Session; requests.get uses the
\* default adapter of requests, which retries nothing
max_retries(site) ==
    IF site \in {"get_html_content", "schedules_api"}
    THEN [total |-> total, status_forcelist |-> status_forcelist,
          respect_retry_after_header |-> TRUE]
    ELSE [total |-> 0, status_forcelist |-> {},
          respect_retry_after_header |-> TRUE]

Statuses == {200, 404} \cup status_forcelist

Sites == {"get_html_content", "schedules_api", "scrape_main_rows"}

\* the url of get_html_content and of scrape_main_rows is built from a ticker
\* of the fixed list; the url of the schedules API holds the company id
\* read from the page, whose digits may include "429"
Callers ==
    {[site |-> st, url_has_429 |-> u] :
        st \in Sites, u \in BOOLEAN} \
    {[site |-> st, url_has_429 |-> TRUE] :
        st \in {"get_html_content", "scrape_main_rows"}}

FetchInit ==
    /\ caller \in Callers
    /\ fpc = "ready"
    /\ retries = 0
    /\ answer = NoAnswer
    /\ waited = "none"
    /\ outcome = NoOutcome
    /\ XbrlIdle /\ HttpIdle /\ LoadIdle /\ UpsertIdle /\ ExtractIdle /\ ScraperIdle /\ MainIdle

\* session.get / requests.get: the request is sent and the server answers
Request ==
    /\ fpc = "ready"
    /\ \E status \in Statuses, retry_after \in BOOLEAN :
          answer' = [status |-> status, retry_after |-> retry_after]
    /\ fpc' = "answered"
    /\ UNCHANGED <<caller, retries, waited, outcome, exceptFetch>>

\* urllib3: the status is in the adapter's status_forcelist and retries are
\* left; sleep for the Retry-After header if the response has one and the
\* configuration respects it, for the backoff otherwise, then send again
RetrySleep ==
    /\ fpc = "answered"
    /\ answer.status \in max_retries(caller.site).status_forcelist
    /\ retries < max_retries(caller.site).total
    /\ retries' = retries + 1
    /\ waited' = IF /\ max_retries(caller.site).respect_retry_after_header
                    /\ answer.retry_after
                 THEN "retry_after" ELSE "backoff"
    /\ fpc' = "ready"
    /\ UNCHANGED <<caller, answer, outcome, exceptFetch>>

\* `"429" in str(e)': the message of the exception names the status and the url
mentions_429(site, status) == status = 429 \/ site.url_has_429

\* the except clause of the call site
on_exception(site, class, status) ==
    IF site.site = "get_html_content"
    THEN [raised |-> class, printed |-> "Error fetching HTML content",
          extra_delay |-> mentions_429(site, status)]
    ELSE IF site.site = "schedules_api"
    THEN [raised |-> class, printed |-> "Error fetching API data",
          extra_delay |-> mentions_429(site, status)]
    ELSE [raised |-> class, printed |-> "Error processing",
          extra_delay |-> FALSE]

\* urllib3: the status is in the status_forcelist and no retry is left
\* (MaxRetryError, which requests raises as RetryError)
GiveUp ==
    /\ fpc = "answered"
    /\ answer.status \in max_retries(caller.site).status_forcelist
    /\ retries >= max_retries(caller.site).total
    /\ outcome' = on_exception(caller, "RetryError", answer.status)
    /\ fpc' = "done"
    /\ UNCHANGED <<caller, retries, answer, waited, exceptFetch>>

\* the response is handed to the call site, which calls raise_for_status()
Returned ==
    /\ fpc = "answered"
    /\ answer.status \notin max_retries(caller.site).status_forcelist
    /\ outcome' = IF answer.status >= 400
                  THEN on_exception(caller, "HTTPError", answer.status)
                  ELSE NoOutcome
    /\ fpc' = "done"
    /\ UNCHANGED <<caller, retries, answer, waited, exceptFetch>>

FetchNext == Request \/ RetrySleep \/ GiveUp \/ Returned

SpecFetch == FetchInit /\ [][FetchNext]_vars

(***************************************************************************)
(* scrap_finchat.py: extract_financial_data on the source of a page, with  *)
(* the three parsers it chooses from and the parse_date and                *)
(* parse_financial_value they call.  A page is given by what the three     *)
(* find_all calls return; a structure is the text of its rows of cells,    *)
(* the first row being the header row.                                     *)
(***************************************************************************)
\* "12/31/2024"
s_12_31_2024 ==
    <<"1","2","/","3","1","/","2","0","2","4">>
\* "Q1 2024"
s_Q1_2024 ==
    <<"Q","1"," ","2","0","2","4">>
\* "Mar 2024"
s_Mar_2024 ==
    <<"M","a","r"," ","2","0","2","4">>
\* "2024"
s_2024 ==
    <<"2","0","2","4">>
\* "FY24"
s_FY24 ==
    <<"F","Y","2","4">>
\* "Parameter"
s_Parameter ==
    <<"P","a","r","a","m","e","t","e","r">>
\* "parameter"
s_parameter ==
    <<"p","a","r","a","m","e","t","e","r">>
\* "metric"
s_metric ==
    <<"m","e","t","r","i","c">>
\* "Total Assets"
s_TotalAssets ==
    <<"T","o","t","a","l"," ","A","s","s","e","t","s">>
\* "Assets"
s_Assets ==
    <<"A","s","s","e","t","s">>
\* "assets"
s_assets ==
    <<"a","s","s","e","t","s">>
\* "liabilities"
s_liabilities ==
    <<"l","i","a","b","i","l","i","t","i","e","s">>
\* "equity"
s_equity ==
    <<"e","q","u","i","t","y">>
\* "N/A"
s_NA ==
    <<"N","/","A">>
\* "ABCDEFGHIJKLMNOPQRSTUVWXYZ"
s_Upper ==
    <<"A","B","C","D","E","F","G","H","I","J","K","L","M","N","O","P",
      "Q","R","S","T","U","V","W","X","Y","Z">>
\* "abcdefghijklmnopqrstuvwxyz"
s_Lower ==
    <<"a","b","c","d","e","f","g","h","i","j","k","l","m","n","o","p",
      "q","r","s","t","u","v","w","x","y","z">>

\* str.lower() for ASCII letters
lower(s) ==
    [i \in DOMAIN s |->
        IF \E k \in DOMAIN s_Upper : s_Upper[k] = s[i]
        THEN s_Lower[CHOOSE k \in DOMAIN s_Upper : s_Upper[k] = s[i]]
        ELSE s[i]]

\* datetime.date(year, month, day): ValueError for a date that does not exist
date(year, month, day) ==
    IF year \in 1..9999 /\ month \in 1..12 /\ day \in 1..monthrange(year, month)
    THEN [year |-> year, month |-> month, day |-> day]
    ELSE ValueError

\* \d{4} matches at position i
Digits4At(s, i) == \A k \in i..(i + 3) : k \in DOMAIN s /\ s[k] \in DigitChars

Least(S) == CHOOSE i \in S : \A j \in S : i <= j

\* re.search(r'(\d{4})', s): the groups of the leftmost match (<< >>: no match)
search_year(s) ==
    LET starts == {i \in DOMAIN s : Digits4At(s, i)}
    IN  IF starts = {} THEN <<>>
        ELSE <<SubSeq(s, Least(starts), Least(starts) + 3)>>

\* re.search(<literal>\s+(\d{4}), s), the literal being p characters long and
\* matching at the positions literal_at
search_then_year(s, literal_at, p) ==
    LET year_at(i) ==
            {j \in (i + p + 1)..Len(s) :
                /\ \A k \in (i + p)..(j - 1) : s[k] \in Whitespace
                /\ Digits4At(s, j)}
        starts == {i \in literal_at : year_at(i) # {}}
    IN  IF starts = {} THEN <<>>
        ELSE LET j == Least(year_at(Least(starts)))
             IN  <<SubSeq(s, j, j + 3)>>

\* the positions where Q[1-4] matches
Quarter_at(s) ==
    {i \in DOMAIN s : /\ s[i] = "Q" /\ i + 1 \in DOMAIN s
                      /\ s[i + 1] \in {"1", "2", "3", "4"}}

\* the positions where Mar matches
Mar_at(s) ==
    {i \in DOMAIN s : /\ i + 2 \in DOMAIN s
                      /\ SubSeq(s, i, i + 2) = <<"M", "a", "r">>}

\* re.search(r'(\d{1,2})/(\d{1,2})/(\d{4})', s)
search_m_d_y(s) ==
    LET digits(i, n) == \A k \in i..(i + n - 1) : k \in DOMAIN s /\ s[k] \in DigitChars
        slash(i) == i \in DOMAIN s /\ s[i] = "/"
        at(i, a, b) ==
            /\ digits(i, a) /\ slash(i + a)
            /\ digits(i + a + 1, b) /\ slash(i + a + 1 + b)
            /\ Digits4At(s, i + a + b + 2)
        matches == {m \in (DOMAIN s) \X {1, 2} \X {1, 2} : at(m[1], m[2], m[3])}
    IN  IF matches = {} THEN <<>>
        ELSE LET i == Least({m[1] : m \in matches})
                 m == CHOOSE m \in matches : m[1] = i
             IN  <<SubSeq(s, i, i + m[2] - 1),
                   SubSeq(s, i + m[2] + 1, i + m[2] + m[3]),
                   SubSeq(s, i + m[2] + m[3] + 2, i + m[2] + m[3] + 5)>>

\* parse_date: the patterns in the order of the list; None (NoValue) for an
\* empty string, no match, or a ValueError of date()
parse_date(date_str) ==
    LET s   == strip(date_str)
        q   == search_then_year(s, Quarter_at(s), 2)
        mar == search_then_year(s, Mar_at(s), 3)
        y   == search_year(s)
        mdy == search_m_d_y(s)
        converted ==
            IF q # <<>> THEN date(int(q[1]), 3, 31)
            ELSE IF mar # <<>> THEN date(int(mar[1]), 3, 31)
            ELSE IF y # <<>> THEN date(int(y[1]), 3, 31)
            ELSE IF mdy # <<>> THEN date(int(mdy[3]), int(mdy[1]), int(mdy[2]))
            ELSE NoValue
    IN  IF date_str = <<>> \/ converted = ValueError THEN NoValue ELSE converted

\* float(s) of parse_financial_value: ValueError for anything but 0-9 . -
float_or_error(s) ==
    IF \A i \in DOMAIN s : s[i] \in DigitChars \cup {".", "-"}
    THEN float(s) ELSE ValueError

\* parse_financial_value
parse_financial_value(value_str) ==
    LET without(s, chars) == SelectSeq(s, LAMBDA c : c \notin chars)
        stripped == without(value_str, {"RUPEE", "$", ","} \cup Whitespace)
        clean == IF "(" \in Range(stripped) /\ ")" \in Range(stripped)
                 THEN <<"-">> \o without(stripped, {"(", ")"})
                 ELSE stripped
        times(f, n) ==
            IF f = ValueError THEN NoValue
            ELSE normalise([num |-> f.num * n, scale |-> f.scale])
        endswith(suffix) ==
            /\ Len(clean) >= Len(suffix)
            /\ SubSeq(lower(clean), Len(clean) - Len(suffix) + 1, Len(clean))
                   = suffix
        cut(n) == SubSeq(clean, 1, Len(clean) - n)
    IN  IF value_str \in {s_empty, s_emdash, s_dash, s_NA} THEN NoValue
        ELSE IF "%" \in Range(clean)
        THEN LET f == float_or_error(without(clean, {"%"}))
             IN  IF f = ValueError THEN NoValue
                 ELSE normalise([num |-> f.num, scale |-> f.scale + 2])
        ELSE IF endswith(<<"c", "r">>)
        THEN times(float_or_error(cut(2)), 10000000)
        ELSE IF endswith(<<"l">>) THEN times(float_or_error(cut(1)), 100000)
        ELSE IF endswith(<<"k">>) THEN times(float_or_error(cut(1)), 1000)
        ELSE times(float_or_error(clean), 1)

\* what a parser has so far: the data points and the parse_date calls made
Parsed(data, calls) == [data |-> data, calls |-> calls]

\* the date headers a parser takes from the header row
date_headers(strategy, headers) ==
    IF headers = <<>> THEN <<>>
    ELSE IF strategy = "parse_html_tables"
    THEN SelectSeq(Tail(headers),
                   LAMBDA h : h # <<>> /\ lower(h) \notin {s_parameter, s_metric})
    ELSE Tail(headers)

\* the row is skipped
skipped(strategy, cells) ==
    \/ Len(cells) < 2
    \/ cells[1] = <<>>
    \/ /\ strategy = "parse_html_tables"
       /\ lower(cells[1]) \in {s_assets, s_liabilities, s_equity}

\* `for i, date_header in enumerate(date_headers, 1)', from the i-th header
RECURSIVE parse_cells(_, _, _, _)
parse_cells(headers, cells, i, acc) ==
    IF i > Len(headers) THEN acc
    ELSE IF i + 1 > Len(cells) THEN parse_cells(headers, cells, i + 1, acc)
    ELSE LET report_date == parse_date(headers[i])
             value == parse_financial_value(cells[i + 1])
             call  == [date_str |-> headers[i], returned |-> report_date]
             point == [parameter |-> cells[1], report_date |-> report_date,
                       value |-> value]
         IN  parse_cells(headers, cells, i + 1,
                 Parsed(IF report_date # NoValue /\ value # NoValue
                        THEN Append(acc.data, point) ELSE acc.data,
                        Append(acc.calls, call)))

\* `for row in rows', over the rows after the header row
RECURSIVE parse_rows(_, _, _, _)
parse_rows(strategy, headers, rows, acc) ==
    IF rows = <<>> THEN acc
    ELSE parse_rows(strategy, headers, Tail(rows),
             IF skipped(strategy, Head(rows)) THEN acc
             ELSE parse_cells(headers, Head(rows), 1, acc))

\* parse_html_tables, parse_aria_tables and parse_table_wrappers: the loop
\* over the structures
RECURSIVE parse_structures(_, _, _)
parse_structures(strategy, structures, acc) ==
    IF structures = <<>> THEN acc
    ELSE LET rows == Head(structures)
         IN  parse_structures(strategy, Tail(structures),
                 IF rows = <<>> THEN acc
                 ELSE parse_rows(strategy,
                                 date_headers(strategy, Head(rows)),
                                 Tail(rows), acc))

parse_html_tables(tables) ==
    parse_structures("parse_html_tables", tables, Parsed(<<>>, <<>>))

parse_aria_tables(aria_tables) ==
    parse_structures("parse_aria_tables", aria_tables, Parsed(<<>>, <<>>))

parse_table_wrappers(table_wrappers) ==
    parse_structures("parse_table_wrappers", table_wrappers, Parsed(<<>>, <<>>))

\* what extract_financial_data returns, with the parser it used
Extracted(strategy, parsed) ==
    [used |-> strategy, data |-> parsed.data, calls |-> parsed.calls]

\* an extraction that goes on to the next strategy when one yields no data
extract_first_with_data(page) ==
    LET html == parse_html_tables(page.tables)
        aria == parse_aria_tables(page.aria_tables)
        wrap == parse_table_wrappers(page.table_wrappers)
    IN  IF page.fault THEN Extracted("none", Parsed(<<>>, <<>>))
        ELSE IF html.data # <<>> THEN Extracted("parse_html_tables", html)
        ELSE IF aria.data # <<>> THEN Extracted("parse_aria_tables", aria)
        ELSE IF wrap.data # <<>> THEN Extracted("parse_table_wrappers", wrap)
        ELSE Extracted("none", Parsed(<<>>, <<>>))

\* extract_financial_data: the try block and its except clause
extract_financial_data(page) ==
    IF page.fault THEN Extracted("none", Parsed(<<>>, <<>>))
    ELSE IF page.tables # <<>>
    THEN Extracted("parse_html_tables", parse_html_tables(page.tables))
    ELSE IF page.aria_tables # <<>>
    THEN Extracted("parse_aria_tables", parse_aria_tables(page.aria_tables))
    ELSE IF page.table_wrappers # <<>>
    THEN Extracted("parse_table_wrappers",
                   parse_table_wrappers(page.table_wrappers))
    ELSE Extracted("none", Parsed(<<>>, <<>>))

\* the structures of the pages: one with an M/D/YYYY and a quarter column,
\* one with a "Mar YYYY" and a year column, one that yields no data point
Structures ==
    {<<<<s_Parameter, s_12_31_2024, s_Q1_2024>>, <<s_TotalAssets, s_10, s_20>>>>,
     <<<<s_Parameter, s_Mar_2024, s_2024>>, <<s_TotalAssets, s_dash, s_10>>>>,
     <<<<s_Parameter, s_FY24>>, <<s_Assets, s_10>>>>}

Pages_source ==
    {[tables |-> t, aria_tables |-> a, table_wrappers |-> w, fault |-> f] :
        t \in SeqsUpTo(Structures, MaxItems),
        a \in SeqsUpTo(Structures, MaxItems),
        w \in SeqsUpTo(Structures, MaxItems),
        f \in BOOLEAN}

ExtractInit ==
    /\ page_source \in Pages_source
    /\ epc = "called"
    /\ extracted = Extracted("none", Parsed(<<>>, <<>>))
    /\ XbrlIdle /\ HttpIdle /\ LoadIdle /\ UpsertIdle /\ FetchIdle /\ ScraperIdle /\ MainIdle

\* extract_financial_data runs on the page source
ExtractFinancialData ==
    /\ epc = "called"
    /\ extracted' = extract_financial_data(page_source)
    /\ epc' = "returned"
    /\ UNCHANGED <<page_source, exceptExtract>>

SpecExtract == ExtractInit /\ [][ExtractFinancialData]_vars

(***************************************************************************)
(* scrap_finchat.py: process_all_companies and test_single_company, as the *)
(* calls they make to scrape_company_balance_sheet and                     *)
(* store_balance_sheet_data.  A method call on the scraper is looked up in *)
(* the class; the class has no base class.                                 *)
(***************************************************************************)
\* the methods class FinChatBalanceSheetScraper defines
Methods ==
    {"__init__", "setup_driver", "try_alternative_setup",
     "get_companies_from_db", "wait_for_page_load", "extract_financial_data",
     "parse_html_tables", "parse_aria_tables", "parse_table_wrappers",
     "parse_date", "parse_financial_value", "scrape_company_balance_sheet",
     "store_balance_sheet_data", "process_all_companies",
     "test_single_company", "close"}

\* self.<name>(...) finds the method; AttributeError otherwise
has_method(name) == name \in Methods

\* the rows get_companies_from_db can return
CompanyRows ==
    {[company_id |-> 1, ticker |-> "TCS"],
     [company_id |-> 2, ticker |-> "ITC"],
     [company_id |-> 3, ticker |-> "INFY"]}

\* what scrape_company_balance_sheet returns for a ticker: it catches every
\* exception and returns [] then
ScrapedLists == {d \in FinChatData : Len(d) <= 1}

Scrape(company) ==
    [call |-> "scrape_company_balance_sheet", company |-> company, data |-> <<>>]

Store(company, data) ==
    [call |-> "store_balance_sheet_data", company |-> company, data |-> data]

Outcome(evs, exception, value) ==
    [events |-> evs, raised |-> exception, returned |-> value]

\* process_all_companies: `for i, (company_id, ticker) in enumerate(companies)'
RECURSIVE process_loop(_, _, _)
process_loop(companies, scraped, evs) ==
    IF companies = <<>> THEN evs
    ELSE LET company == Head(companies)
             balance_sheet_data == scraped[company.ticker]
             scrape == Append(evs, Scrape(company))
         IN  process_loop(Tail(companies), scraped,
                 IF balance_sheet_data # <<>>
                 THEN Append(scrape, Store(company, balance_sheet_data))
                 ELSE scrape)

\* process_all_companies
process_all_companies(companies, scraped) ==
    IF companies = <<>> THEN Outcome(<<>>, "none", "None")
    ELSE IF ~has_method("create_balance_sheet_table")
    THEN Outcome(<<>>, "AttributeError", "nothing")
    ELSE Outcome(process_loop(companies, scraped, <<>>), "none", "None")

\* test_single_company: `found' is the company_detail row of the ticker, or
\* << >> when fetchone() returns None
test_single_company(found, scraped) ==
    IF found = <<>> THEN Outcome(<<>>, "none", "False")
    ELSE LET company == found[1]
             data    == scraped[company.ticker]
         IN  IF data = <<>> THEN Outcome(<<Scrape(company)>>, "none", "False")
             ELSE IF ~has_method("create_balance_sheet_table")
             THEN Outcome(<<Scrape(company)>>, "AttributeError", "nothing")
             ELSE Outcome(<<Scrape(company), Store(company, data)>>,
                          "none", "True")

Invocations ==
    {[method |-> "process_all_companies", companies |-> cs, scraped |-> sc] :
        cs \in SeqsUpTo(CompanyRows, MaxCompanies),
        sc \in [{c.ticker : c \in CompanyRows} -> ScrapedLists]}
    \cup {[method |-> "test_single_company", found |-> f, scraped |-> sc] :
        f \in {<<>>} \cup {<<c>> : c \in CompanyRows},
        sc \in [{c.ticker : c \in CompanyRows} -> ScrapedLists]}

ScraperInit ==
    /\ invoked \in Invocations
    /\ rpc = "called"
    /\ events = <<>>
    /\ ended = NoResult
    /\ XbrlIdle /\ HttpIdle /\ LoadIdle /\ UpsertIdle /\ FetchIdle /\ ExtractIdle
    /\ MainIdle

\* the call runs to its return or to the exception that leaves it
Ran(outcome_of_call) ==
    /\ events' = outcome_of_call.events
    /\ ended' = [raised |-> outcome_of_call.raised,
                 returned |-> outcome_of_call.returned]
    /\ rpc' = IF outcome_of_call.raised = "none" THEN "returned" ELSE "raised"
    /\ UNCHANGED <<invoked, exceptScraper>>

ProcessAllCompanies ==
    /\ rpc = "called" /\ invoked.method = "process_all_companies"
    /\ Ran(process_all_companies(invoked.companies, invoked.scraped))

TestSingleCompany ==
    /\ rpc = "called" /\ invoked.method = "test_single_company"
    /\ Ran(test_single_company(invoked.found, invoked.scraped))

ScraperNext == ProcessAllCompanies \/ TestSingleCompany

SpecScraper == ScraperInit /\ [][ScraperNext]_vars

(***************************************************************************)
(* scrape_it.py, the __main__ block: the loop over the tickers with its    *)
(* two counters.  What the site answers is an input of each iteration:     *)
(* whether get_html_content returned a page, what get_company_id_from_html *)
(* and get_expandable_items did, and how the request of each item went.    *)
(***************************************************************************)
\* the tickers of the list (three of the fifty)
TickerList == {"HEROMOTOCO", "TCS", "INFY"}

\* random.shuffle(tickers): the orders the list can have
Shuffled ==
    {t \in [1..Cardinality(TickerList) -> TickerList] :
        \A i, j \in DOMAIN t : t[i] = t[j] => i = j}

\* how the try block of one item of items_to_scrape ends: the file is
\* saved, an exception one of the two inner except clauses catches, or any
\* other exception
ItemOutcomes == {"saved", "RequestException", "JSONDecodeError", "Exception"}

\* what get_company_id_from_html does: an id, None, or an exception
CompanyIdOutcomes == {"found", "None", "Exception"}

\* what get_expandable_items does and how the items go: it raises, or
\* returns the items
ItemsOutcomes ==
    {[raised |-> TRUE, items |-> <<>>]}
    \cup {[raised |-> FALSE, items |-> its] :
             its \in SeqsUpTo(ItemOutcomes, MaxItems)}

Counted(processed, error, branch) ==
    [processed |-> processed, error |-> error, branch |-> branch]

\* an iteration that counts the company as processed before its items are
\* fetched
ticker_iteration_counts_early(html, company_id, expandable) ==
    IF ~html THEN Counted(0, 1, "no html content")
    ELSE IF company_id = "Exception" THEN Counted(0, 1, "except Exception")
    ELSE IF company_id = "None" THEN Counted(0, 1, "no company id")
    ELSE IF expandable.raised THEN Counted(0, 1, "except Exception")
    ELSE IF "Exception" \in Range(expandable.items)
    THEN Counted(1, 1, "except Exception")
    ELSE Counted(1, 0, "processed")

\* one iteration of `for ticker in tickers': the increments of
\* processed_count and error_count, and the branch that made them
ticker_iteration(html, company_id, expandable) ==
    IF ~html THEN Counted(0, 1, "no html content")
    ELSE IF company_id = "Exception" THEN Counted(0, 1, "except Exception")
    ELSE IF company_id = "None" THEN Counted(0, 1, "no company id")
    ELSE IF expandable.raised THEN Counted(0, 1, "except Exception")
    ELSE IF "Exception" \in Range(expandable.items)
    THEN Counted(0, 1, "except Exception")
    ELSE Counted(1, 0, "processed")

MainInit ==
    /\ tickers \in Shuffled
    /\ ti = 1
    /\ mpc = "loop"
    /\ processed_count = 0
    /\ error_count = 0
    /\ handled = <<>>
    /\ XbrlIdle /\ HttpIdle /\ LoadIdle /\ UpsertIdle /\ FetchIdle
    /\ ExtractIdle /\ ScraperIdle

\* the body of the loop for tickers[ti]
TickerIteration ==
    /\ mpc = "loop"
    /\ ti <= Len(tickers)
    /\ \E html \in BOOLEAN, company_id \in CompanyIdOutcomes,
          expandable \in ItemsOutcomes :
          LET counted == ticker_iteration(html, company_id, expandable)
          IN  /\ processed_count' = processed_count + counted.processed
              /\ error_count' = error_count + counted.error
              /\ handled' = Append(handled,
                     [ticker |-> tickers[ti], html |-> html,
                      company_id |-> IF html THEN company_id ELSE "not asked",
                      branch |-> counted.branch])
    /\ ti' = ti + 1
    /\ UNCHANGED <<tickers, mpc, exceptMain>>

\* the loop is over: "Scraping complete!"
ScrapingComplete ==
    /\ mpc = "loop"
    /\ ti > Len(tickers)
    /\ mpc' = "complete"
    /\ UNCHANGED <<tickers, ti, processed_count, error_count, handled, exceptMain>>

MainNext == TickerIteration \/ ScrapingComplete

SpecMain == MainInit /\ [][MainNext]_vars

(***************************************************************************)
(* Properties of the groupers (checked under SpecXbrl).                    *)
(***************************************************************************)
\* the facts the grouping loop has been through
Processed == IF xpc \in {"grouping", "grouped"} THEN 1..(fi - 1) ELSE {}

EndsInDigit(s) == s # <<>> /\ s[Len(s)] \in DigitChars

\* the integer a string's trailing digits denote (-1 if it ends in no digit)
TrailingInteger(s) == IF EndsInDigit(s) THEN int(digit_suffix(s)) ELSE -1

\* C2: in every grouper, every integer group id present in an output group
\* mapping is the integer value of the trailing digits of the context string
\* of at least one collected fact.
C2_GroupIdsComeFromContexts ==
    \A t \in DOMAIN out.tables : \A id \in DOMAIN out.tables[t] :
        \E j \in Processed :
            /\ EndsInDigit(facts[j].context)
            /\ TrailingInteger(facts[j].context) = id

\* a run that produced several groups, one of them from a two-digit suffix
C2_Witness ==
    /\ kind = "rp"
    /\ xpc = "grouped"
    /\ DOMAIN out.tables["grouped_facts"] = {7, 12}

\* the grouping loop takes a step on a fact whose context ends in no digit
NoDigitStep ==
    /\ xpc = "grouping"
    /\ fi <= Len(facts)
    /\ fi' = fi + 1
    /\ ~EndsInDigit(facts[fi].context)

Alone(k, fact) == group_fact(k, EmptyOut(k), fact).tables

HasEntry(tables, t, id, f) ==
    /\ t \in DOMAIN tables
    /\ id \in DOMAIN tables[t]
    /\ f \in DOMAIN tables[t][id]

\* the processed facts that map to field f of group id of dictionary t
Writers(t, id, f) ==
    {j \in Processed : HasEntry(Alone(kind, facts[j]), t, id, f)}

Last(S) == CHOOSE j \in S : \A i \in S : i <= j

\* C4: when two or more facts of one group map to the same field name, the
\* value stored for that field is the value of the fact that comes last in
\* document order.
C4_LastWriteWins ==
    \A t \in DOMAIN out.tables :
        \A id \in DOMAIN out.tables[t] :
            \A f \in DOMAIN out.tables[t][id] :
                /\ Writers(t, id, f) # {}
                /\ out.tables[t][id][f] =
                       facts[Last(Writers(t, id, f))].fact_value

\* two facts with different values were written to one field of one group
C4_Witness ==
    /\ xpc = "grouped"
    /\ \E t \in DOMAIN out.tables :
         \E id \in DOMAIN out.tables[t] :
           \E f \in DOMAIN out.tables[t][id] :
             /\ Cardinality(Writers(t, id, f)) = 2
             /\ \E i, j \in Writers(t, id, f) :
                    i < j /\ facts[i].fact_value # facts[j].fact_value

\* the fact the grouping loop has just been through
JustGrouped(k) == kind = k /\ xpc \in {"grouping", "grouped"} /\ fi > 1

C7_PreviousYearFact ==
    /\ (/\ kind = "rp"
        /\ xpc = "grouped"
        /\ Len(xml.elems) = 1
        /\ xml.elems[1].tag = tag_Amount
        /\ xml.elems[1].contextRef = ctx_RPT_PY7
        /\ xml.elems[1].text # None
        /\ strip(xml.elems[1].text) = s_500)
         => out.tables["grouped_facts"] = (7 :> (s_PreviousYear :> s_500))
    /\ JustGrouped("rp") =>
         LET fact == facts[fi - 1]
             n    == TrailingInteger(fact.context)
         IN  (/\ startswith(fact.context, s_RelatedPartyTransaction_PY)
              /\ EndsInDigit(fact.context)) =>
                 /\ HasEntry(out.tables, "grouped_facts", n, s_PreviousYear)
                 /\ out.tables["grouped_facts"][n][s_PreviousYear] =
                        fact.fact_value
                 /\ (fact.element_name # s_PreviousYear =>
                        (HasEntry(out.tables, "grouped_facts", n,
                                  fact.element_name)
                           => \E j \in 1..(fi - 2) :
                                 HasEntry(Alone("rp", facts[j]),
                                          "grouped_facts", n,
                                          fact.element_name)))

\* the example document of C7 has been grouped
C7_Witness ==
    /\ kind = "rp"
    /\ xpc = "grouped"
    /\ xml.elems = <<Element(tag_Amount, ctx_RPT_PY7, s_500_padded)>>
    /\ DOMAIN out.tables["grouped_facts"] = {7}
    /\ DOMAIN out.tables["grouped_facts"][7] = {s_PreviousYear}

\* an element with non-blank text and a contextRef that is there and not empty
IsFactElement(elem) ==
    /\ elem.text # None
    /\ \E i \in 1..Len(elem.text) : elem.text[i] \notin Whitespace
    /\ elem.contextRef # None
    /\ elem.contextRef # <<>>

\* every value stored anywhere in the output
StoredValues(o) ==
    {o.general_info[f] : f \in DOMAIN o.general_info}
      \cup UNION {UNION {{o.tables[t][id][f] : f \in DOMAIN o.tables[t][id]} :
                            id \in DOMAIN o.tables[t]} : t \in DOMAIN o.tables}
      \cup UNION {UNION {{o.employee_details[e][g][f] :
                              f \in DOMAIN o.employee_details[e][g]} :
                            g \in DOMAIN o.employee_details[e]} :
                     e \in DOMAIN o.employee_details}

\* C8: the collected fact list holds exactly the elements that have non-blank
\* text and a non-empty contextRef attribute, in document order; an element
\* with empty or whitespace-only text, or with no or an empty contextRef,
\* contributes to no group and no bucket.
C8_FactsAreTheTextElementsWithContext ==
    xpc \in {"no_facts", "grouping", "grouped"} =>
        LET kept == SelectSeq(xml.elems, IsFactElement)
        IN  /\ Len(facts) = Len(kept)
            /\ \A i \in 1..Len(kept) :
                 /\ facts[i].element_name = local_name(kept[i].tag)
                 /\ facts[i].context = kept[i].contextRef
                 /\ facts[i].fact_value = strip(kept[i].text)
            /\ StoredValues(out) \subseteq
                   {strip(xml.elems[i].text) :
                        i \in {j \in 1..Len(xml.elems) :
                                  IsFactElement(xml.elems[j])}}
            /\ (kept = <<>> => out = EmptyOut(kind))

\* a document with a skipped element before a collected one has been grouped
C8_Witness ==
    /\ xpc = "grouped"
    /\ Len(xml.elems) = 2
    /\ ~IsFactElement(xml.elems[1])
    /\ IsFactElement(xml.elems[2])
    /\ Len(facts) = 1
    /\ StoredValues(out) # {}

\* the categories of the corporate-governance grouper and their sheets
CgCategories ==
    <<[marker |-> s_CompBOD, table |-> "board_composition"],
      [marker |-> s_CompComit, table |-> "committee_composition"],
      [marker |-> s_MeetingBOD, table |-> "board_meetings"],
      [marker |-> s_MeetingComit, table |-> "committee_meetings"]>>

\* the category a context falls in: the first one whose marker it contains
\* ("none" for a general-info context, a context without trailing integer
\* or one that contains no marker)
CgCategory(context) ==
    LET hits == {n \in DOMAIN CgCategories :
                    contains(context, CgCategories[n].marker)}
    IN  IF context \in {s_MainD, s_MainI} \/ ~EndsInDigit(context) \/ hits = {}
        THEN "none"
        ELSE CgCategories[CHOOSE n \in hits : \A m \in hits : n <= m].table

\* row id of sheet t (the empty row when the sheet has no such row)
Row(tables, t, id) ==
    IF id \in DOMAIN tables[t] THEN tables[t][id] ELSE EmptyDict

\* C18: in the corporate-governance grouper two facts end up in the same
\* output row if and only if they fall in the same category and their
\* contexts end in the same integer: the step that groups a fact writes the
\* fact's field into the row keyed by (its category, its trailing integer)
\* and leaves every other row of every sheet as it was, so facts of different
\* categories that share a suffix are never merged into one row.
C18_RowIsCategoryAndSuffix ==
    [][(kind = "cg" /\ xpc = "grouping" /\ fi' = fi + 1) =>
          LET fact == facts[fi]
              cat  == CgCategory(fact.context)
              id   == TrailingInteger(fact.context)
          IN  /\ cat # "none" =>
                    /\ id \in DOMAIN out'.tables[cat]
                    /\ out'.tables[cat][id] =
                           dict_set(Row(out.tables, cat, id),
                                    fact.element_name, fact.fact_value)
              /\ \A t \in DOMAIN out.tables :
                    \A i \in (DOMAIN out.tables[t]) \cup (DOMAIN out'.tables[t]) :
                        (t # cat \/ i # id) =>
                            Row(out'.tables, t, i) = Row(out.tables, t, i)]_vars

\* two facts of different categories whose contexts both end in 1 were
\* grouped, and each is in row 1 of its own sheet
C18_Witness ==
    /\ kind = "cg" /\ xpc = "grouped"
    /\ \E j, k \in Processed :
          /\ CgCategory(facts[j].context) = "board_composition"
          /\ CgCategory(facts[k].context) = "committee_composition"
          /\ TrailingInteger(facts[j].context) = 1
          /\ TrailingInteger(facts[k].context) = 1
    /\ DOMAIN out.tables["board_composition"] = {1}
    /\ DOMAIN out.tables["committee_composition"] = {1}

(***************************************************************************)
(* Properties of the XML loaders (checked under SpecLoad).                 *)
(***************************************************************************)
\* the rows of all tables that were derived from file i
RowsFrom(i) ==
    UNION {{sqlTables[t][n] : n \in {m \in DOMAIN sqlTables[t] :
                                        sqlTables[t][m].from_file = i}} :
           t \in DOMAIN sqlTables}

\* the parse failure of file i was printed
ParseFailureReported(i) ==
    \E n \in DOMAIN log : log[n].file = i /\ log[n].reason = "ParseError"

\* the cg loader left file i unparsed because it has no company number for it
SkippedUnparsed(i) ==
    /\ loader = "cg"
    /\ \E n \in DOMAIN log :
          /\ log[n].file = i
          /\ log[n].msg \in {"Ticker not found", "Database query failed"}

\* C9: a malformed XML file contributes no row to any table; once the loop
\* has passed it, its parse failure has been printed (the cg loader parses a
\* file only when it has a company number for the file's ticker, and prints
\* the failed lookup otherwise); and the run does not stop at it: the loop
\* moves on to the next file.
C9_MalformedFileSkipped ==
    \A i \in DOMAIN files :
        files[i].status = "malformed" =>
            /\ RowsFrom(i) = {}
            /\ i < li => (ParseFailureReported(i) \/ SkippedUnparsed(i))
            /\ ~(lpc = "crashed" /\ li = i)
            /\ lpc = "done" => i < li

\* a malformed file was parsed, reported and skipped, and the file after it
\* was loaded
C9_Witness ==
    \E i \in DOMAIN files :
        /\ files[i].status = "malformed"
        /\ files[i].elems # <<>>
        /\ ParseFailureReported(i)
        /\ RowsFrom(i) = {}
        /\ i + 1 < li
        /\ RowsFrom(i + 1) # {}

(***************************************************************************)
(* Properties of the upserting scrapers (checked under SpecUpsert).        *)
(***************************************************************************)
UpsertedTables == {"balance_sheet", "profit_and_loss"}

\* at most one row per key
KeysUnique ==
    \A t \in UpsertedTables : \A r1, r2 \in db[t] : key(r1) = key(r2) => r1 = r2

\* the rows are those of the keys upserted so far, each with the value of the
\* latest committed upsert for its key
HoldsLatestUpsert ==
    /\ \A t \in UpsertedTables : \A r \in db[t] :
          /\ <<t, key(r)>> \in DOMAIN lastUpsert
          /\ lastUpsert[<<t, key(r)>>] = r.value
    /\ \A k \in DOMAIN lastUpsert : \E r \in db[k[1]] : key(r) = k[2]

\* a committed load of the data that was loaded and committed just before
\* leaves both tables as they were
ReloadChangesNothing ==
    (upc' = "committed" /\ job'.reload) =>
        \A t \in UpsertedTables : db'[t] = db[t]

\* C10: after any sequence of loader runs balance_sheet and profit_and_loss
\* hold at most one row per (company_id, report_date, parameter), the row's
\* value is that of the most recent upsert for the key (an upsert counts once
\* its transaction is committed), and loading the same scraped data a second
\* time leaves the same rows as loading it once.
C10_OneRowPerKeyLatestValue ==
    [](KeysUnique /\ HoldsLatestUpsert) /\ [][ReloadChangesNothing]_vars

\* both scrapers have committed rows, the last load upserted one key twice
\* with different values, the table holds the later one, and that load was
\* a reload
C10_Witness ==
    /\ upc = "committed" /\ job.loader = "finchat" /\ job.reload
    /\ Len(job.data) > 1
    /\ job.data[1].value # job.data[Len(job.data)].value
    /\ \E r \in db.balance_sheet :
          /\ r.value = job.data[Len(job.data)].value
          /\ \E d \in db.company_detail : d.id = r.company_id /\ d.ticker = job.ticker
    /\ db.profit_and_loss # {}

\* the loop has reached file i
Attempted(i) == li > i \/ (li = i /\ lpc = "crashed")

\* C13: a failure while processing one file is caught and does not stop the
\* run: every file of the folder is eventually attempted, whatever happened
\* to the earlier ones.  In xml_to_excel.py an exception of ET.parse other
\* than ParseError leaves the loop, and the files after it are never reached.
C13_EveryFileAttempted ==
    \A i \in 1..MaxFiles : <>(i \in DOMAIN files => Attempted(i))

(***************************************************************************)
(* Properties of the file-id endpoints (checked under SpecHttp).           *)
(***************************************************************************)
\* the file-id list of the requested company in a ticker -> ids table
FileIds(map) == map_get(map, get_ticker_from_company_number(req.company_number))

\* the handler of the endpoint has answered a request whose service calls
\* worked, for a company that has a list of file ids
Answered(endpoint, map) ==
    /\ hpc = "responded" /\ req.endpoint = endpoint /\ ~req.fault
    /\ FileIds(map) # <<>>

C16_QuarterlyLastIsQ4 ==
    Answered("GET /quarterly", quarterly_map) =>
        LET L == FileIds(quarterly_map)
        IN  IF req.quarter \in 1..4 /\ req.quarter <= Len(L)
            THEN /\ resp.status = 200
                 /\ Len(L) = 4 => resp.body.quarterly_file_id = L[req.quarter]
            ELSE /\ resp.status # 200
                 /\ resp.body =
                        "Quarterly file for the requested quarter not available."

(***************************************************************************)
(* Properties of the ratio endpoints (checked under SpecHttp).             *)
(***************************************************************************)
\* the requested company numbers that exist in company_detail, as requested
ExistingRequested ==
    SelectSeq(req.company_numbers, LAMBDA c : c \in DOMAIN company_detail)

\* GET /ratios has answered with what get_predefined_ratios returned
RatiosReturned ==
    hpc = "responded" /\ req.endpoint = "GET /ratios" /\ resp.status = 200

HasRejectedRow ==
    /\ job.loader = "screener"
    /\ \E sec \in {job.data.profit_loss, job.data.balance_sheet} :
          /\ sec.rows # <<>>
          /\ \E n \in DOMAIN sec.dates :
                /\ ~IsDate(format_date(sec.dates[n]))
                /\ n \in DOMAIN sec.rows[1].values
                /\ sec.rows[1].values[n] # s_dash

\* C14: on a database error while a company's rows are written, nothing
\* written for that company is persisted and the rows committed before are
\* unchanged: the committed tables change only by the commit of a
\* transaction that met no database error.
C14_FailedTransactionPersistsNothing ==
    [][db' # db => (upc' = "committed" /\ conn.txn # "failed")]_vars

\* a company that was new to company_detail was inserted, one of its rows was
\* rejected, and after the commit neither the company nor any of its rows is
\* in the tables, which still hold the rows committed for an earlier company
C14_Witness ==
    /\ upc = "rolled_back" /\ HasRejectedRow
    /\ \A d \in db.company_detail : d.ticker # job.ticker
    /\ db.profit_and_loss # {}

(***************************************************************************)
(* Properties of the outbound requests (checked under SpecFetch).          *)
(***************************************************************************)
\* C12: every outbound request is under the retry policy: a request that was
\* answered 429/500/502/503/504 is given up only after 5 retries, whichever
\* call site sent it.  The request of scrape_main_rows.main is sent with
\* requests.get and is given up after its first such answer.
C12_EveryRequestRetried ==
    /\ retries <= total
    /\ (fpc = "done" /\ answer.status \in status_forcelist)
           => retries = total

(***************************************************************************)
(* Properties of a repeated load (checked under SpecReload).               *)
(***************************************************************************)
\* the transaction or item id of a stored row of table t
row_id(t, r) == IF t = "rpt" THEN r.row.TransactionID ELSE r.row.item

\* C11: the loaders write by upsert keyed by (company, transaction id): a
\* table never holds two rows for the same file's company and the same
\* transaction/item id, also after the folder was loaded a second time.
\* The code appends (to_sql if_exists='append'), so the second run violates it.
C11_OneRowPerFileAndId ==
    \A t \in DOMAIN sqlTables :
        \A n, m \in DOMAIN sqlTables[t] :
            (/\ sqlTables[t][n].from_file = sqlTables[t][m].from_file
             /\ row_id(t, sqlTables[t][n]) = row_id(t, sqlTables[t][m]))
                => n = m

(***************************************************************************)
(* Properties of the FinChat extraction (checked under SpecExtract).       *)
(***************************************************************************)

\* the first of the three kinds of structure the page has, as the parser
\* that handles it
FirstPresent(page) ==
    IF page.tables # <<>> THEN "parse_html_tables"
    ELSE IF page.aria_tables # <<>> THEN "parse_aria_tables"
    ELSE IF page.table_wrappers # <<>> THEN "parse_table_wrappers"
    ELSE "none"

\* C19: when extract_financial_data returns without an exception, the parser
\* used is the one of the first kind of structure the page has, in the order
\* <table>, role='table', div.table-wrapper; a later parser is used only when
\* the page has no structure of an earlier kind; the list returned is the
\* list of that parser, even when it is empty; with no structure of any kind
\* the list returned is empty.
C19_FirstPresentStrategyDecides ==
    (epc = "returned" /\ ~page_source.fault) =>
        /\ extracted.used = FirstPresent(page_source)
        /\ extracted.used = "parse_aria_tables" => page_source.tables = <<>>
        /\ extracted.used = "parse_table_wrappers" =>
               page_source.tables = <<>> /\ page_source.aria_tables = <<>>
        /\ extracted.used = "parse_html_tables" =>
               extracted.data = parse_html_tables(page_source.tables).data
        /\ extracted.used = "parse_aria_tables" =>
               extracted.data = parse_aria_tables(page_source.aria_tables).data
        /\ extracted.used = "parse_table_wrappers" =>
               extracted.data =
                   parse_table_wrappers(page_source.table_wrappers).data
        /\ extracted.used = "none" => extracted.data = <<>>

\* C19 witness: the page has a <table> that yields no data point and a
\* role='table' structure that would yield some; the list returned is empty.
C19_Witness ==
    /\ epc = "returned" /\ ~page_source.fault
    /\ page_source.tables # <<>>
    /\ parse_aria_tables(page_source.aria_tables).data # <<>>
    /\ extracted.used = "parse_html_tables"
    /\ extracted.data = <<>>

\* the string is of the form M/D/YYYY
is_m_d_y(s) ==
    LET m == search_m_d_y(s)
    IN  m # <<>> /\ Len(s) = Len(m[1]) + Len(m[2]) + 6

\* C20: every parse_date call on a header of the form M/D/YYYY returns the
\* date with year YYYY, month M and day D.
C20_MonthDayYearHeader ==
    \A k \in DOMAIN extracted.calls :
        LET call == extracted.calls[k]
            m    == search_m_d_y(call.date_str)
        IN  is_m_d_y(call.date_str) =>
                call.returned = date(int(m[3]), int(m[1]), int(m[2]))

(***************************************************************************)
(* Properties of the BRSR grouper (checked under SpecXbrl).                *)
(***************************************************************************)

\* the employee type a context stands for: the more specific marker first
EmployeeTypeOf(context) ==
    IF contains(context, s_OtherThanPermanentEmployees)
    THEN "Other Than Permanent"
    ELSE IF contains(context, s_PermanentEmployees) THEN "Permanent"
    ELSE "Overall"

\* C21: in the BRSR grouper the step that groups an Employees_TableA fact
\* stores its value under employee type "Other Than Permanent" when the
\* context contains "OtherThanPermanentEmployees", under "Permanent" when it
\* contains "PermanentEmployees" but not "OtherThanPermanentEmployees", and
\* under "Overall" otherwise.
C21_EmployeeTypeOfContext ==
    [][(/\ kind = "brsr" /\ xpc = "grouping" /\ fi' = fi + 1
        /\ contains(facts[fi].context, s_Employees_TableA))
       => LET fact     == facts[fi]
              emp_type == EmployeeTypeOf(fact.context)
              gender   == brsr_gender(fact.context)
              details  == out'.employee_details
          IN  /\ emp_type \in DOMAIN details
              /\ gender \in DOMAIN details[emp_type]
              /\ fact.element_name \in DOMAIN details[emp_type][gender]
              /\ details[emp_type][gender][fact.element_name] = fact.fact_value
      ]_vars

(***************************************************************************)
(* Properties of the related-party grouper's keys (checked under SpecXbrl).*)
(***************************************************************************)

\* the key the claimed prefix precedence gives a fact
KeyByPrefix(fact) ==
    IF startswith(fact.context, s_D_) THEN fact.element_name
    ELSE IF startswith(fact.context, s_RelatedPartyTransaction_PY)
    THEN s_PreviousYear
    ELSE s_Outstanding

\* the processed facts of transaction n that were assigned the key
AssignedKey(n, field) ==
    {j \in Processed : /\ EndsInDigit(facts[j].context)
                       /\ TrailingInteger(facts[j].context) = n
                       /\ KeyByPrefix(facts[j]) = field}

\* an outstanding-balance fact: its context has neither prefix
IsOutstandingBalanceFact(fact) ==
    /\ ~startswith(fact.context, s_D_)
    /\ ~startswith(fact.context, s_RelatedPartyTransaction_PY)

\* the Outstanding field of every group holds the value of the last fact of
\* the group that was assigned that key
OutstandingIsLastAssigned ==
    \A n \in DOMAIN out.tables["grouped_facts"] :
        s_Outstanding \in DOMAIN out.tables["grouped_facts"][n] =>
            /\ AssignedKey(n, s_Outstanding) # {}
            /\ out.tables["grouped_facts"][n][s_Outstanding] =
                   facts[Last(AssignedKey(n, s_Outstanding))].fact_value

\* C22 as stated: the Outstanding field of a group of the related-party
\* grouper only ever holds the value of an outstanding-balance fact of that
\* transaction (a fact whose context ends in the group's number and has
\* neither the "D_" nor the "RelatedPartyTransaction_PY" prefix).
C22_OutstandingOnlyFromBalanceFacts ==
    kind = "rp" =>
        \A n \in DOMAIN out.tables["grouped_facts"] :
            s_Outstanding \in DOMAIN out.tables["grouped_facts"][n] =>
                \E j \in AssignedKey(n, s_Outstanding) :
                    /\ IsOutstandingBalanceFact(facts[j])
                    /\ out.tables["grouped_facts"][n][s_Outstanding] =
                           facts[j].fact_value

\* C22 (amended): in the related-party grouper the step that groups a fact
\* whose context ends in digits n writes the fact's value into group n under
\* exactly one key, chosen by prefix precedence (own element name for "D_",
\* else the previous-year key for "RelatedPartyTransaction_PY", else the
\* outstanding key), and changes nothing else; a group's Outstanding field
\* holds the value of the last fact of the group that was assigned that key,
\* which is a fact with neither prefix or a "D_" fact whose element name is
\* the outstanding key itself.
C22_OneKeyByPrefixPrecedence ==
    [][(kind = "rp" /\ xpc = "grouping" /\ fi' = fi + 1) =>
          LET fact == facts[fi]
              n    == TrailingInteger(fact.context)
          IN  /\ EndsInDigit(fact.context) =>
                    out'.tables["grouped_facts"] =
                        group_set(out.tables["grouped_facts"], n,
                                  KeyByPrefix(fact), fact.fact_value)
              /\ OutstandingIsLastAssigned'
      ]_vars

\* C22 witness: group 7 got its Outstanding field from a fact with neither
\* prefix and then a "D_" fact named like the outstanding key overwrote it
C22_Witness ==
    /\ kind = "rp" /\ xpc = "grouped" /\ Len(facts) = 2
    /\ IsOutstandingBalanceFact(facts[1])
    /\ TrailingInteger(facts[1].context) = 7
    /\ startswith(facts[2].context, s_D_)
    /\ facts[2].element_name = s_Outstanding
    /\ facts[1].fact_value # facts[2].fact_value
    /\ out.tables["grouped_facts"] = (7 :> (s_Outstanding :> facts[2].fact_value))

(***************************************************************************)
(* Properties of the ratio service's year columns (checked under SpecHttp).*)
(***************************************************************************)

\* a ratio endpoint has answered a request whose service call met no fault
RatioAnswered ==
    /\ hpc = "responded"
    /\ req.endpoint \in {"GET /ratios", "POST /ratios/parameters"}
    /\ ~req.fault

\* the years start_year (default 2016) to end_year (default 2025), as columns
RequestedCols ==
    LET from == IF req.start_year \in {NoYear, 0} THEN FirstYearCol
                ELSE req.start_year - 2000
        to   == IF req.end_year \in {NoYear, 0} THEN LastYearCol
                ELSE req.end_year - 2000
    IN  [i \in 1..(to - from + 1) |-> from + i - 1]

\* C23: in the ratio service the selected year columns are always a
\* non-empty contiguous sub-range of mar_16..mar_25: they run from start_year
\* (default 2016) to end_year (default 2025) inclusive and fall back to all
\* ten columns when that range is empty; the headers of every returned object
\* are 'Ratio' followed by "Mar <year>" for exactly those years, and every
\* data item carries exactly the keys listed in headers.
C23_YearColumnsWithinTable ==
    RatioAnswered =>
        LET cols == selected_year_cols(req.start_year, req.end_year)
        IN  /\ cols # <<>>
            /\ \A i \in 1..(Len(cols) - 1) : cols[i + 1] = cols[i] + 1
            /\ Range(cols) \subseteq FirstYearCol..LastYearCol
            /\ cols = IF RequestedCols = <<>>
                      THEN range(FirstYearCol, LastYearCol + 1)
                      ELSE RequestedCols
            /\ resp.status = 200 =>
                  \A i \in DOMAIN resp.body :
                      /\ resp.body[i].headers =
                            <<Ratio>> \o [k \in 1..Len(cols) |->
                                              Mar(2000 + cols[k])]
                      /\ \A d \in DOMAIN resp.body[i].data :
                            DOMAIN resp.body[i].data[d] =
                                Range(resp.body[i].headers)

(***************************************************************************)
(* get_ratios_by_parameters against get_predefined_ratios (SpecHttp).      *)
(***************************************************************************)

\* what get_predefined_ratios returns for the companies and years of the
\* request
Predefined ==
    get_predefined_ratios(req.company_numbers, req.start_year, req.end_year,
                          req.fault)

\* an object with its data restricted to the rows named in the parameter list
Restricted(object, parameters) ==
    [object EXCEPT !.data =
        SelectSeq(@, LAMBDA item : item[Ratio][2] \in parameters)]

\* C24: for every company list, year range and parameter list,
\* get_ratios_by_parameters returns the list of objects get_predefined_ratios
\* returns for the same companies and years, each object's data restricted
\* to the ratio rows whose name is in the parameter list (name, ticker,
\* number, headers and value formatting are the same); it raises exactly
\* when get_predefined_ratios raises.  The endpoint returns that list unless
\* it is empty or no object has data.
C24_ParametersRestrictPredefined ==
    (hpc = "responded" /\ req.endpoint = "POST /ratios/parameters") =>
        LET restricted ==
                [i \in DOMAIN Predefined.body |->
                    Restricted(Predefined.body[i], req.parameters)]
            by_parameters ==
                get_ratios_by_parameters(req.company_numbers, req.parameters,
                                         req.start_year, req.end_year,
                                         req.fault)
        IN  /\ by_parameters.raised = Predefined.raised
            /\ Predefined.raised = "none" =>
                  /\ by_parameters.body = restricted
                  /\ resp.status = 200 => resp.body = restricted
                  /\ resp.status # 200 =>
                        \A i \in DOMAIN restricted : restricted[i].data = <<>>

\* C24 witness: company 1 has two ratio rows, and the request for ROCE alone
\* was answered with one of them
C24_Witness ==
    /\ hpc = "responded" /\ req.endpoint = "POST /ratios/parameters"
    /\ resp.status = 200
    /\ req.parameters = {"ROCE"}
    /\ req.company_numbers = <<1>>
    /\ Len(Predefined.body[1].data) = 2
    /\ Len(resp.body[1].data) = 1
    /\ resp.body[1].data[1][Ratio] = <<"str", "ROCE">>

(***************************************************************************)
(* Properties of the FinChat scraper's runs (checked under SpecScraper).   *)
(***************************************************************************)

\* the calls, in order, that scrape every company and store it when the
\* scrape yielded data
RECURSIVE ScrapeThenStore(_, _)
ScrapeThenStore(companies, scraped) ==
    IF companies = <<>> THEN <<>>
    ELSE LET company == Head(companies)
         IN  <<Scrape(company)>>
             \o (IF scraped[company.ticker] # <<>>
                 THEN <<Store(company, scraped[company.ticker])>> ELSE <<>>)
             \o ScrapeThenStore(Tail(companies), scraped)

\* C25: process_all_companies processes all companies: for every
\* (company_id, ticker) returned by get_companies_from_db, in order, it
\* scrapes the ticker's balance sheet and then stores the data for that
\* company_id if and only if the scraped data is non-empty; and
\* test_single_company stores the data and returns True whenever the scrape
\* yields data.
C25_AllCompaniesProcessed ==
    /\ (rpc # "called" /\ invoked.method = "process_all_companies") =>
          events = ScrapeThenStore(invoked.companies, invoked.scraped)
    /\ (/\ rpc # "called" /\ invoked.method = "test_single_company"
        /\ invoked.found # <<>>
        /\ invoked.scraped[invoked.found[1].ticker] # <<>>)
          => /\ ended.returned = "True"
             /\ events[Len(events)] =
                    Store(invoked.found[1],
                          invoked.scraped[invoked.found[1].ticker])

(***************************************************************************)
(* The two related-party groupers against each other (SpecXbrl).           *)
(***************************************************************************)

\* C26: the two related-party groupers compute the same grouping: after any
\* number of facts of any fact list, the dictionary xml_to_excel.py has
\* built holds the transaction ids and, for each id, the field-name to value
\* mapping that Step 2 of xml_to_excel_new.py builds from the same facts.
C26_SameGrouping ==
    (kind = "rp" /\ xpc \in {"grouping", "grouped"}) =>
        LET new == new_grouped_facts(SubSeq(facts, 1, fi - 1))
            old == out.tables["grouped_facts"]
        IN  /\ DOMAIN old = DOMAIN new
            /\ \A id \in DOMAIN old :
                  /\ DOMAIN old[id] = DOMAIN new[id]
                  /\ \A f \in DOMAIN old[id] : old[id][f] = new[id][f]

\* C26 witness: a document with a current-period and a previous-year fact
\* of transaction 7 has been grouped into one group with both fields
C26_Witness ==
    /\ kind = "rp" /\ xpc = "grouped" /\ Len(facts) = 2
    /\ facts[1].context = ctx_D_RPT7
    /\ facts[2].context = ctx_RPT_PY7
    /\ DOMAIN new_grouped_facts(facts) = {7}
    /\ DOMAIN out.tables["grouped_facts"][7] =
           {facts[1].element_name, s_PreviousYear}

(***************************************************************************)
(* The corporate-governance loader against the exporter (SpecXbrl): the    *)
(* exporter's sheets are the state of the grouper, the loader's four group *)
(* mappings are computed from the same facts.                              *)
(***************************************************************************)

\* the categories whose marker the context contains
MarkersIn(context) ==
    {n \in DOMAIN CgCategories : contains(context, CgCategories[n].marker)}

\* the facts the grouper has processed
ProcessedFacts == SubSeq(facts, 1, fi - 1)

\* the loader's group mapping of category n
LoaderGroups(n, facts_) == sql_cg_groups(facts_, CgCategories[n].marker)

\* the loader tables a fact contributes to
LoaderTablesOf(fact) ==
    {n \in DOMAIN CgCategories : LoaderGroups(n, <<fact>>) # EmptyDict}

\* C27 as stated: for every fact list each fact contributes to at most one
\* of the four tables, and the four group mappings built by process_cg_files
\* equal those built by parse_cg_xml_to_excel.
C27_LoaderEqualsExporter ==
    (kind = "cg" /\ xpc \in {"grouping", "grouped"}) =>
        /\ \A j \in DOMAIN ProcessedFacts :
              Cardinality(LoaderTablesOf(ProcessedFacts[j])) <= 1
        /\ \A n \in DOMAIN CgCategories :
              LoaderGroups(n, ProcessedFacts) = out.tables[CgCategories[n].table]

\* C27 (amended): the four group mappings of the loader equal those of the
\* exporter for every fact list in which no context contains more than one
\* of the four markers, and each such fact contributes to at most one
\* table.  In general the exporter's mapping of a category is the loader's
\* mapping of the facts whose first marker (in the order CompBOD, CompComit,
\* MeetingBOD, MeetingComit) is that category: a fact whose context contains
\* several markers goes to every matching table of the loader and only to
\* the first matching sheet of the exporter.
C27_EqualUpToSeveralMarkers ==
    (kind = "cg" /\ xpc \in {"grouping", "grouped"}) =>
        /\ (\A j \in DOMAIN ProcessedFacts :
               Cardinality(MarkersIn(ProcessedFacts[j].context)) <= 1)
             => /\ \A j \in DOMAIN ProcessedFacts :
                      Cardinality(LoaderTablesOf(ProcessedFacts[j])) <= 1
                /\ \A n \in DOMAIN CgCategories :
                      LoaderGroups(n, ProcessedFacts) =
                          out.tables[CgCategories[n].table]
        /\ \A n \in DOMAIN CgCategories :
              out.tables[CgCategories[n].table] =
                  LoaderGroups(n, SelectSeq(ProcessedFacts,
                      LAMBDA fact : /\ n \in MarkersIn(fact.context)
                                    /\ \A m \in MarkersIn(fact.context) : n <= m))
        /\ \A j \in DOMAIN ProcessedFacts :
              LoaderTablesOf(ProcessedFacts[j]) =
                  IF EndsInDigit(ProcessedFacts[j].context)
                  THEN MarkersIn(ProcessedFacts[j].context) ELSE {}

\* C27 witness: a fact whose context contains CompBOD and MeetingBOD is in
\* the loader's board-composition and board-meetings mappings and in the
\* exporter's board-composition sheet only
C27_Witness ==
    /\ kind = "cg" /\ xpc = "grouped" /\ Len(facts) = 1
    /\ facts[1].context = ctx_CompBODMeetingBOD3
    /\ DOMAIN LoaderGroups(1, facts) = {3}
    /\ DOMAIN LoaderGroups(3, facts) = {3}
    /\ DOMAIN out.tables["board_composition"] = {3}
    /\ out.tables["board_meetings"] = EmptyDict

(***************************************************************************)
(* Properties of the screener loop's counters (checked under SpecMain).    *)
(***************************************************************************)

\* the tickers handled so far that were counted in the given branches
CountedIn(branches) == {i \in DOMAIN handled : handled[i].branch \in branches}

\* C28: in the screener scraping loop every ticker iteration increments
\* exactly one of processed_count and error_count by one: processed_count +
\* error_count is the number of tickers handled so far, and len(tickers)
\* at the end; a ticker is counted as processed only if its page was fetched
\* and a company id was found.
C28_OneCounterPerTicker ==
    /\ Len(handled) = ti - 1
    /\ processed_count = Cardinality(CountedIn({"processed"}))
    /\ error_count = Cardinality(CountedIn({"no html content", "no company id",
                                             "except Exception"}))
    /\ processed_count + error_count = ti - 1
    /\ mpc = "complete" => processed_count + error_count = Len(tickers)
    /\ \A i \in CountedIn({"processed"}) :
          handled[i].html /\ handled[i].company_id = "found"

\* C28 witness: the loop is complete; one ticker was processed and one met
\* an unexpected exception after its company id was found
C28_Witness ==
    /\ mpc = "complete"
    /\ processed_count > 0 /\ error_count > 0
    /\ \E i \in DOMAIN handled :
          /\ handled[i].company_id = "found"
          /\ handled[i].branch = "except Exception"

(***************************************************************************)
(* A corporate-governance file that fails at a later table (checked under  *)
(* SpecLoad).                                                              *)
(***************************************************************************)

\* the DataFrame step n of process_cg_files builds from file i
StepFrame(i, n) ==
    cg_frame(CgSteps[n],
             sql_cg_groups(collect_facts(ET_parse(files[i]).root),
                           CgSteps[n].marker),
             get_company_no(files[i].ticker))

\* step n of file i has facts to write
StepHasFacts(i, n) ==
    sql_cg_groups(collect_facts(ET_parse(files[i]).root), CgSteps[n].marker)
        # EmptyDict

\* the entries of a log about file i with the given message
Reported(lg, i, msg) == {n \in DOMAIN lg : lg[n].file = i /\ lg[n].msg = msg}

\* C29: when the try block of a corporate-governance file is left by an
\* exception at step k (a meeting step's date column is missing, or to_sql
\* raises), the frames of the steps before k stay appended to their tables,
\* the tables of step k and of the later steps receive nothing from the
\* file, the failure is printed and the loop goes on to the next file.
C29_EarlierRowsStayLaterGetNothing ==
    [][(loader = "cg" /\ li' # li
        /\ Reported(log', li, "Failed to process file") # {}
        /\ ET_parse(files[li]).raised = "none")
       => /\ li' = li + 1 /\ lpc' = "loop"
          /\ \E k \in DOMAIN CgSteps :
                /\ StepHasFacts(li, k)
                /\ \A n \in DOMAIN CgSteps :
                      LET t == CgSteps[n].table
                          success == {e \in Reported(log', li, "SUCCESS") :
                                         log'[e].reason = t}
                      IN  IF n < k /\ StepHasFacts(li, n)
                          THEN /\ sqlTables'[t] =
                                      sqlTables[t]
                                          \o from_file(StepFrame(li, n).df, li)
                               /\ success # {}
                          ELSE /\ sqlTables'[t] = sqlTables[t]
                               /\ success = {}
                /\ \A e \in Reported(log', li, "Failed to process file") :
                      log'[e].reason = "KeyError"
                          => StepFrame(li, k).raised = "KeyError"]_vars

\* C29 witness: the first file failed at its board-meetings step with a
\* KeyError; its board-composition rows are in the database, the meeting
\* tables have nothing from it, and the second file was loaded after it
C29_Witness ==
    /\ loader = "cg" /\ li = 3
    /\ \E e \in Reported(log, 1, "Failed to process file") :
          log[e].reason = "KeyError"
    /\ \E r \in DOMAIN sqlTables["cg_board_composition"] :
          sqlTables["cg_board_composition"][r].from_file = 1
    /\ \A t \in {"cg_board_meetings", "cg_committee_meetings"} :
          \A r \in DOMAIN sqlTables[t] : sqlTables[t][r].from_file # 1
    /\ \E r \in DOMAIN sqlTables["cg_committee_meetings"] :
          sqlTables["cg_committee_meetings"][r].from_file = 2

====
